---- MODULE Spec2Model ----
(***************************************************************************)
(* A model of the coordination engine of the crawler in src/src/crawler:   *)
(* the URL frontier (frontier.py), the worker loop (worker.py), the        *)
(* orchestrator's seeding (crawler.py), the per-domain rate limiter        *)
(* (rate_limiter.py) and the fetch retry loop (fetcher.py).                *)
(*                                                                         *)
(* The specifications of the module share its variables:                  *)
(*   SpecFrontier  MemoryFrontier driven call by call (add, get,           *)
(*                 mark_visited, clear);                                   *)
(*   Spec          a crawl: crawl() seeds the frontier and num_workers     *)
(*                 workers run CrawlWorker.run, one step per stretch of    *)
(*                 code between two suspension points;                     *)
(*   SpecRate      workers pacing their requests through                   *)
(*                 RateLimiter.acquire and StaticFetcher.fetch against a   *)
(*                 discrete monotonic clock;                               *)
(*   SpecFetch     StaticFetcher.fetch, attempt by attempt, with every     *)
(*                 outcome of _do_fetch;                                   *)
(*   SpecLive      the crawl of Spec under fair scheduling of the workers; *)
(*   SpecDrain     the crawl of Spec with a page budget above the number   *)
(*                 of pages there are;                                     *)
(*   SpecStop      the crawl of Spec with CrawlWorker.stop() called on a   *)
(*                 worker inside its loop;                                 *)
(*   SpecRateLive  RateLimiter.acquire under fair scheduling, with no end  *)
(*                 of time;                                                *)
(*   SpecCleanup   the end of crawl(): gather returns and _cleanup closes  *)
(*                 the components;                                         *)
(*   SpecValidate  WebCrawler(config): validate, then the components;      *)
(*   SpecStorage   JsonStorage under save, clear and restart;              *)
(*   SpecRedis     RedisFrontier, one step per Redis round trip;           *)
(*   SpecModels    CrawlResult.to_dict and from_dict;                      *)
(*   SpecNormalize LinkExtractor._normalize_url applied twice;             *)
(*   SpecRobots    RobotsHandler against every answer to the robots.txt    *)
(*                 request, and the crawl delay handed to the limiter;     *)
(*   SpecDispatch  the order in which seeds and children leave the         *)
(*                 frontier, for small and large max_depth.                *)
(***************************************************************************)
EXTENDS Integers, Sequences, FiniteSets, TLC

VARIABLES
    frontier,   \* MemoryFrontier: [queue, counter, visited, in_queue]
    calls,      \* SpecFrontier: number of calls made so far
    last,       \* SpecFrontier: the last call and what it returned
    log,        \* SpecFrontier: URLs in the order add() accepted them
    config,     \* CrawlerConfig of the WebCrawler
    phase,      \* "constructed" -> "running" (crawl() called) -> "done"
    stats,      \* CrawlStats shared by the workers
    pc,         \* where each worker is suspended
    req,        \* the request each worker is processing (None between requests)
    result,     \* the CrawlResult each worker holds after its fetch: [status,
                \*           html (the hrefs of the page), links]
    robots_cache,   \* RobotsHandler._cache: host -> None | Some(policy)
    robots_lock,    \* RobotsHandler._lock: 0 when free, else the holder
    storage,    \* BaseStorage: url -> None | Some(status)
    handed,     \* history: how many times get() returned each URL to a worker
    held,       \* history: every request add() accepted
    popped,     \* history: every request get() returned to a worker
    history,    \* history of the crawl: [robots_fetches, fetch_started, saved,
                \*           callbacks, last_callback, raised, accepted]
    now,        \* SpecRate: time.monotonic(), in ticks
    rconfig,    \* SpecRate: the configuration the limiter and fetcher were built from
    limiter,    \* SpecRate: RateLimiter: [semaphore, domain_locks,
                \*           domain_last_request, domain_delays]
    rpc,        \* SpecRate: where each worker is suspended
    rhost,      \* SpecRate: the domain of the URL each worker is processing
    wake,       \* SpecRate: the time each sleeping worker's sleep ends
    attempt,    \* SpecRate: the fetch attempt each worker is at
    rounds,     \* SpecRate: how many URLs each worker has taken up
    acquire_returns,    \* history: per domain, the times acquire() returned
    fetch_starts,       \* history: per domain, the times an HTTP request started
    fetcher,    \* SpecFetch: one StaticFetcher and the fetch() call in progress
    cleanup,    \* SpecCleanup: the end of crawl(): [config, session, pc,
                \*           close_calls, close_raised]
    construction,   \* SpecValidate: WebCrawler(config): [config, pc, components]
    store,      \* SpecStorage: JsonStorage: [results, file, ...]
    rfrontier,  \* SpecRedis: RedisFrontier and its callers
    codec,      \* SpecModels: a CrawlResult through to_dict / from_dict
    norm,       \* SpecNormalize: a URL through LinkExtractor._normalize_url
    stop_called,    \* SpecStop: a record [worker, at, popped] for every worker
                    \*           stop() was called on inside its loop
    robots,     \* SpecRobots: a RobotsHandler, the rate limiter's delays and one
                \*           worker's robots queries
    dispatch    \* SpecDispatch: a frontier fed with seeds and children

\* ------------------------------------------------------------------ bounds

MaxUrls == 3
MaxPriority == 2
MaxCalls == 5

NumWorkers == 2
CrawlUrls == 3
MaxSeeds == 2
MaxLinks == 2
MaxDepth == 2
MaxPages == 2
MaxHosts == 2
MaxTime == 4
MaxDelay == 2
MaxRps4 == 4
MaxRetries == 1
MaxRounds == 2
MaxFetchRetries == 3
MaxRetryDelay == 2
MaxFetches == 2
ValidateSpan == 1
MaxStoreUrls == 2
MaxRedisUrls == 2
MaxRedisCalls == 4
MaxSecond == 1
MaxPathLen == 4
MaxCrawlDelay == 2
MaxStops == 1

URLs == 1..MaxUrls
Priorities == 0..MaxPriority

\* Optional[...]: None is the empty sequence, a value v is <<v>>.
None == <<>>
Some(v) == <<v>>

\* ---------------------------------------------------------------- models.py

DefaultMaxDepth == 3

CrawlRequest(url, depth, max_depth, parent_url, priority) ==
    [url |-> url, depth |-> depth, max_depth |-> max_depth,
     parent_url |-> parent_url, priority |-> priority]

\* -------------------------------------------------------------- frontier.py

\* Python's tuple order on the heap entries (-priority, counter, request).
\* The counter is unique among queued entries, so the request is never compared.
ItemLess(a, b) ==
    \/ a[1] < b[1]
    \/ a[1] = b[1] /\ a[2] < b[2]

RECURSIVE siftdown_loop(_, _, _, _)
siftdown_loop(heap, startpos, pos, newitem) ==
    IF pos > startpos /\ ItemLess(newitem, heap[pos \div 2])
    THEN siftdown_loop([heap EXCEPT ![pos] = heap[pos \div 2]],
                       startpos, pos \div 2, newitem)
    ELSE [heap EXCEPT ![pos] = newitem]

siftdown(heap, startpos, pos) == siftdown_loop(heap, startpos, pos, heap[pos])

RECURSIVE siftup_loop(_, _, _, _)
siftup_loop(heap, startpos, pos, newitem) ==
    LET childpos == 2 * pos
        rightpos == childpos + 1
        smaller == IF rightpos <= Len(heap)
                      /\ ~ItemLess(heap[childpos], heap[rightpos])
                   THEN rightpos ELSE childpos
    IN  IF childpos <= Len(heap)
        THEN siftup_loop([heap EXCEPT ![pos] = heap[smaller]],
                         startpos, smaller, newitem)
        ELSE siftdown([heap EXCEPT ![pos] = newitem], startpos, pos)

siftup(heap, pos) == siftup_loop(heap, pos, pos, heap[pos])

heappush_nosift(heap, item) == Append(heap, item)

heappush(heap, item) == siftdown(Append(heap, item), 1, Len(heap) + 1)

\* heappop on a non-empty heap: [item, heap].
heappop(heap) ==
    LET lastelt == heap[Len(heap)]
        rest == SubSeq(heap, 1, Len(heap) - 1)
    IN  IF rest # <<>>
        THEN [item |-> heap[1], heap |-> siftup([rest EXCEPT ![1] = lastelt], 1)]
        ELSE [item |-> lastelt, heap |-> rest]

MemoryFrontier_init ==
    [queue |-> <<>>, counter |-> 0, visited |-> {}, in_queue |-> {}]

MemoryFrontier_add_visited_only(F, request) ==
    IF request.url \in F.visited
    THEN [F |-> F, ret |-> FALSE]
    ELSE [F |-> [F EXCEPT
                    !.queue = heappush(@, <<-request.priority, F.counter, request>>),
                    !.counter = @ + 1,
                    !.in_queue = @ \cup {request.url}],
          ret |-> TRUE]

MemoryFrontier_add(F, request) ==
    IF request.url \in F.visited \/ request.url \in F.in_queue
    THEN [F |-> F, ret |-> FALSE]
    ELSE [F |-> [F EXCEPT
                    !.queue = heappush(@, <<-request.priority, F.counter, request>>),
                    !.counter = @ + 1,
                    !.in_queue = @ \cup {request.url}],
          ret |-> TRUE]

MemoryFrontier_get_first(F) ==
    IF F.queue = <<>>
    THEN [F |-> F, ret |-> None]
    ELSE LET p == heappop(F.queue)
         IN  [F |-> [F EXCEPT !.queue = p.heap,
                              !.in_queue = @ \ {p.item[3].url}],
              ret |-> Some(p.item[3])]

RECURSIVE MemoryFrontier_get(_)
MemoryFrontier_get(F) ==
    IF F.queue = <<>>
    THEN [F |-> F, ret |-> None]
    ELSE LET p == heappop(F.queue)
             request == p.item[3]
             G == [F EXCEPT !.queue = p.heap, !.in_queue = @ \ {request.url}]
         IN  IF request.url \notin F.visited
             THEN [F |-> G, ret |-> Some(request)]
             ELSE MemoryFrontier_get(G)

MemoryFrontier_mark_visited_noop(F, url) == F

MemoryFrontier_mark_visited(F, url) == [F EXCEPT !.visited = @ \cup {url}]

MemoryFrontier_is_visited(F, url) == url \in F.visited

MemoryFrontier_size(F) == Len(F.queue)

MemoryFrontier_visited_count(F) == Cardinality(F.visited)

MemoryFrontier_clear_keep_in_queue(F) ==
    [queue |-> <<>>, counter |-> 0, visited |-> {}, in_queue |-> F.in_queue]

MemoryFrontier_clear(F) ==
    [queue |-> <<>>, counter |-> 0, visited |-> {}, in_queue |-> {}]

\* ------------------------------------------------ SpecFrontier: call by call

NoCall == [op |-> "none", url |-> 0, ok |-> FALSE, req |-> None, popped |-> 0]

hvars == <<calls, last, log>>

cvars == <<config, phase, stats, pc, req, result, robots_cache, robots_lock,
           storage, handed, held, popped, history>>

rvars == <<now, rconfig, limiter, rpc, rhost, wake, attempt, rounds,
           acquire_returns, fetch_starts>>

\* The variables of the specifications of single components.
pvars == <<cleanup, construction, store, rfrontier, codec, norm>>

\* The variables of the specifications of robots.txt handling, dispatch order
\* and stop().
qvars == <<stop_called, robots, dispatch>>

fvars == <<fetcher, pvars, qvars>>

vars == <<frontier, hvars, cvars, rvars, fvars>>

\* The fetcher of SpecFetch does not run under the other specifications.
NoFetch == fetcher = <<>>

NoParts ==
    /\ cleanup = <<>> /\ construction = <<>> /\ store = <<>>
    /\ rfrontier = <<>> /\ codec = <<>> /\ norm = <<>>
    /\ stop_called = {} /\ robots = <<>> /\ dispatch = <<>>

\* The rate limiter of SpecRate does not run under the other specifications.
NoRate ==
    /\ now = 0 /\ rconfig = <<>> /\ limiter = <<>> /\ rpc = <<>> /\ rhost = <<>>
    /\ wake = <<>> /\ attempt = <<>> /\ rounds = <<>>
    /\ acquire_returns = <<>> /\ fetch_starts = <<>>

\* The crawl of Spec does not run under SpecFrontier.
NoCrawl ==
    /\ config = [max_depth |-> 0, max_pages |-> 1, num_workers |-> 1,
                 respect_robots |-> FALSE, same_domain_only |-> FALSE,
                 allowed_domains |-> {}, on_page_crawled |-> FALSE]
    /\ phase = "none"
    /\ stats = [total_urls_found |-> 0, total_pages_crawled |-> 0,
                total_pages_failed |-> 0, total_pages_skipped |-> 0]
    /\ pc = <<>> /\ req = <<>> /\ result = <<>>
    /\ robots_cache = <<>> /\ robots_lock = 0 /\ storage = <<>>
    /\ handed = <<>> /\ held = {} /\ popped = {} /\ history = <<>>

InitFrontier ==
    /\ frontier = MemoryFrontier_init
    /\ calls = 0
    /\ last = NoCall
    /\ log = <<>>
    /\ NoCrawl
    /\ NoRate
    /\ NoFetch /\ NoParts

CallAdd ==
    \E u \in URLs, p \in Priorities :
        LET request == CrawlRequest(u, 0, DefaultMaxDepth, 0, p)
            r == MemoryFrontier_add(frontier, request)
        IN  /\ calls < MaxCalls
            /\ frontier' = r.F
            /\ calls' = calls + 1
            /\ last' = [op |-> "add", url |-> u, ok |-> r.ret,
                        req |-> Some(request), popped |-> 0]
            /\ log' = IF r.ret THEN Append(log, u) ELSE log
            /\ UNCHANGED <<cvars, rvars, fvars>>

CallGet ==
    LET r == MemoryFrontier_get(frontier)
    IN  /\ calls < MaxCalls
        /\ frontier' = r.F
        /\ calls' = calls + 1
        /\ last' = [op |-> "get", url |-> 0, ok |-> r.ret # None, req |-> r.ret,
                    popped |-> Len(frontier.queue) - Len(r.F.queue)]
        /\ log' = log
        /\ UNCHANGED <<cvars, rvars, fvars>>

CallMarkVisited ==
    \E u \in URLs :
        /\ calls < MaxCalls
        /\ frontier' = MemoryFrontier_mark_visited(frontier, u)
        /\ calls' = calls + 1
        /\ last' = [op |-> "mark_visited", url |-> u, ok |-> TRUE,
                    req |-> None, popped |-> 0]
        /\ log' = log
        /\ UNCHANGED <<cvars, rvars, fvars>>

CallClear ==
    /\ calls < MaxCalls
    /\ frontier' = MemoryFrontier_clear(frontier)
    /\ calls' = calls + 1
    /\ last' = [op |-> "clear", url |-> 0, ok |-> TRUE, req |-> None, popped |-> 0]
    /\ log' = <<>>
    /\ UNCHANGED <<cvars, rvars, fvars>>

NextFrontier == CallAdd \/ CallGet \/ CallMarkVisited \/ CallClear

SpecFrontier == InitFrontier /\ [][NextFrontier]_vars

\* ------------------------------------------------------ claims on the frontier

IsCall(op) == calls' = calls + 1 /\ last'.op = op

Entries(F) == {F.queue[i] : i \in DOMAIN F.queue}

\* Queue positions whose request get() may return: the URL is not visited.
Eligible(F) == {i \in DOMAIN F.queue : F.queue[i][3].url \notin F.visited}

\* Position in the log of the add() that queued u (its latest accepted add).
AddOrder(u) ==
    CHOOSE i \in DOMAIN log : log[i] = u /\ \A j \in DOMAIN log : j > i => log[j] # u

\* C2: add(r) returns false and leaves queue, in_queue, visited and the counter
\* as they were when r.url is visited or queued; otherwise it returns true and
\* size() grows by exactly 1.
C2_AddDedup ==
    [][IsCall("add") =>
        IF last'.url \in frontier.visited \/ last'.url \in frontier.in_queue
        THEN last'.ok = FALSE /\ frontier' = frontier
        ELSE /\ last'.ok = TRUE
             /\ MemoryFrontier_size(frontier') = MemoryFrontier_size(frontier) + 1
      ]_vars

\* An add of a URL that is still queued has just been refused.
C2_Witness ==
    /\ last.op = "add" /\ ~last.ok
    /\ last.url \in frontier.in_queue
    /\ MemoryFrontier_size(frontier) >= 1

\* C3: get() never returns a request whose URL is visited at the call: it
\* removes nothing but the request it returns and visited entries, and it
\* returns None only when no unvisited entry is queued.
C3_GetSkipsVisited ==
    [][IsCall("get") =>
        LET pre == Entries(frontier)
            post == Entries(frontier')
            gone == pre \ post
        IN  /\ post \subseteq pre
            /\ last'.req = None =>
                    /\ \A e \in pre : e[3].url \in frontier.visited
                    /\ post = {}
            /\ last'.req # None =>
                    LET r == last'.req[1]
                    IN  /\ r.url \notin frontier.visited
                        /\ \E e \in gone : e[3] = r
                        /\ \A e \in gone : e[3] = r \/ e[3].url \in frontier.visited
      ]_vars

\* A get() has discarded a visited entry and returned the next eligible request.
C3_Witness ==
    /\ last.op = "get" /\ last.req # None
    /\ last.popped >= 2
    /\ last.req[1].url \notin frontier.visited

\* C4: get() returns, among the queued requests whose URL is not visited, the
\* one of largest priority, and among those of equal priority the one added
\* earliest.
C4_PriorityThenFifo ==
    [][IsCall("get") =>
        IF Eligible(frontier) = {}
        THEN last'.req = None
        ELSE \E i \in Eligible(frontier) :
                LET r == frontier.queue[i][3]
                IN  /\ last'.req = Some(r)
                    /\ \A j \in Eligible(frontier) \ {i} :
                          LET q == frontier.queue[j][3]
                          IN  \/ r.priority > q.priority
                              \/ /\ r.priority = q.priority
                                 /\ AddOrder(r.url) < AddOrder(q.url)
      ]_vars

\* A get() has returned one of two eligible requests of equal priority while a
\* request of lower priority stays queued.
C4_Witness ==
    /\ last.op = "get" /\ last.req # None
    /\ \E i, j \in Eligible(frontier) :
          /\ frontier.queue[i][3].priority = last.req[1].priority
          /\ frontier.queue[j][3].priority < last.req[1].priority

\* C40: in every reachable state in_queue is exactly the set of URLs of the
\* heap entries, no URL occurs in two heap entries, and size() is the number of
\* distinct queued URLs.
C40_InQueueIsHeapUrls ==
    /\ frontier.in_queue = {entry[3].url : entry \in Entries(frontier)}
    /\ \A i, j \in DOMAIN frontier.queue :
          i # j => frontier.queue[i][3].url # frontier.queue[j][3].url
    /\ MemoryFrontier_size(frontier) = Cardinality(frontier.in_queue)

\* A get() has discarded a visited entry, returned the next request and left a
\* third one queued.
C40_Witness ==
    /\ last.op = "get" /\ last.req # None
    /\ last.popped >= 2
    /\ MemoryFrontier_size(frontier) >= 1
    /\ frontier.visited # {}

\* ------------------------------------------------------------------ the crawl

Workers == 1..NumWorkers
CrawlURLs == 1..CrawlUrls

\* urlparse(url).netloc: URLs 1 and 2 are on host 1, URLs 3 and 4 on host 2, ...
Host(url) == (url + 1) \div 2

Hosts == {Host(u) : u \in CrawlURLs}

\* The href lists a fetched page may carry (after urljoin and normalisation).
LinkLists ==
    {l \in UNION {[1..n -> CrawlURLs] : n \in 0..MaxLinks} :
        \A i, j \in DOMAIN l : i # j => l[i] # l[j]}

SeedLists == UNION {[1..n -> CrawlURLs] : n \in 1..MaxSeeds}

Range(f) == {f[i] : i \in DOMAIN f}

\* config.py
validate(c) ==
    /\ c.max_depth >= 0
    /\ c.max_pages >= 1
    /\ c.num_workers >= 1

Configs ==
    {c \in [max_depth : 0..MaxDepth, max_pages : 1..MaxPages,
            num_workers : 1..NumWorkers, respect_robots : BOOLEAN,
            same_domain_only : BOOLEAN, allowed_domains : {{}},
            on_page_crawled : BOOLEAN] : validate(c)}

\* models.py
CrawlStats_init ==
    [total_urls_found |-> 0, total_pages_crawled |-> 0,
     total_pages_failed |-> 0, total_pages_skipped |-> 0]

\* link_extractor.py
is_domain_allowed_any(c, domain, base_domain) == TRUE

is_domain_allowed(c, domain, base_domain) ==
    IF c.allowed_domains # {} THEN domain \in c.allowed_domains
    ELSE IF c.same_domain_only THEN domain = base_domain
    ELSE TRUE

extract_links(c, hrefs, base_url) ==
    SelectSeq(hrefs, LAMBDA u : is_domain_allowed(c, Host(u), Host(base_url)))

\* crawler.py: the seeds' priority
SeedPriority == 100

\* crawler.py: "Auto-populate allowed domains"
populate_allowed_domains(c, seed_urls) ==
    IF c.same_domain_only /\ c.allowed_domains = {}
    THEN [c EXCEPT !.allowed_domains = {Host(u) : u \in Range(seed_urls)}]
    ELSE c

\* crawler.py: "Seed the frontier". [F, accepted]
RECURSIVE seed_frontier(_, _, _, _)
seed_frontier(F, seed_urls, max_depth, accepted) ==
    IF seed_urls = <<>>
    THEN [F |-> F, accepted |-> accepted]
    ELSE LET request == CrawlRequest(Head(seed_urls), 0, max_depth, 0, SeedPriority)
             a == MemoryFrontier_add(F, request)
         IN  seed_frontier(a.F, Tail(seed_urls), max_depth,
                           IF a.ret THEN accepted \cup {request} ELSE accepted)

\* worker.py: the budget check at the top of the loop
budget_reached_gt(s, max_pages) == s.total_pages_crawled > max_pages

budget_reached_early(s, max_pages) == s.total_pages_crawled + 1 >= max_pages

budget_reached(s, max_pages) == s.total_pages_crawled >= max_pages

\* worker.py: "Queue new links"
may_enqueue_le(request) == request.depth <= request.max_depth

may_enqueue(request) == request.depth < request.max_depth

\* worker.py: the loop over links. [F, found, accepted]
RECURSIVE enqueue_links(_, _, _, _, _)
enqueue_links(F, request, links, found, accepted) ==
    IF links = <<>>
    THEN [F |-> F, found |-> found, accepted |-> accepted]
    ELSE LET new_request ==
                 CrawlRequest(Head(links), request.depth + 1, request.max_depth,
                              request.url,
                              request.max_depth - request.depth - 1)
             a == MemoryFrontier_add(F, new_request)
         IN  enqueue_links(a.F, request, Tail(links),
                           IF a.ret THEN found + 1 ELSE found,
                           IF a.ret THEN accepted \cup {new_request} ELSE accepted)

\* robots_handler.py: a parsed robots.txt, as the set of URLs of the host that
\* can_fetch denies to the configured user agent.
Policies(h) == SUBSET {u \in CrawlURLs : Host(u) = h}

can_fetch_all(policy, url) == TRUE

can_fetch(policy, url) == url \notin policy

NoResult == [status |-> "pending", html |-> <<>>, links |-> <<>>]

\* robots_handler.py: "async with self._lock" enters when the lock is free.
robots_lock_ignored(lock) == TRUE

robots_lock_free(lock) == lock = 0

\* worker.py: the counter a failed or skipped result adds to.
count_terminal_as_failed(s, status) ==
    [s EXCEPT !.total_pages_failed = @ + 1]

count_terminal(s, status) ==
    IF status = "failed"
    THEN [s EXCEPT !.total_pages_failed = @ + 1]
    ELSE [s EXCEPT !.total_pages_skipped = @ + 1]

\* worker.py: "if self.on_page_crawled: ... self.on_page_crawled(result)";
\* what the callback raises is swallowed.  n counts the invocations.
invoke_callback_never(c, n) == n

invoke_callback(c, n) == IF c.on_page_crawled THEN n + 1 ELSE n

Statuses == {"completed", "failed", "skipped"}

\* worker.py: "try: self.on_page_crawled(result) except Exception: pass".
\* Whether an exception the callback raises leaves _process_url.
callback_escapes_uncaught(raises) == raises

callback_escapes(raises) == FALSE

\* What the crawl has done so far: robots.txt requests sent per host, URLs
\* whose fetch has started, results storage.save has stored per status,
\* invocations of the progress callback and how the last one ended (until a
\* worker is back at the top of its loop), exceptions run() has caught, add()
\* calls that returned true.
History_init ==
    [robots_fetches |-> [h \in Hosts |-> 0],
     fetch_started |-> {},
     saved |-> [s \in Statuses |-> 0],
     callbacks |-> 0,
     last_callback |-> "none",
     raised |-> 0,
     accepted |-> 0]

Init ==
    /\ frontier = MemoryFrontier_init
    /\ calls = 0 /\ last = NoCall /\ log = <<>>
    /\ config \in Configs
    /\ phase = "constructed"
    /\ stats = CrawlStats_init
    /\ pc = [w \in Workers |-> "idle"]
    /\ req = [w \in Workers |-> None]
    /\ result = [w \in Workers |-> NoResult]
    /\ robots_cache = [h \in Hosts |-> None]
    /\ robots_lock = 0
    /\ storage = [u \in CrawlURLs |-> None]
    /\ handed = [u \in CrawlURLs |-> 0]
    /\ held = {}
    /\ popped = {}
    /\ history = History_init
    /\ NoRate
    /\ NoFetch /\ NoParts

\* WebCrawler.crawl up to the start of the workers.
crawl(seed_urls) ==
    /\ phase = "constructed"
    /\ LET c == populate_allowed_domains(config, seed_urls)
           s == seed_frontier(frontier, seed_urls, c.max_depth, {})
       IN  /\ config' = c
           /\ frontier' = s.F
           /\ held' = held \cup s.accepted
           /\ stats' = [CrawlStats_init EXCEPT !.total_urls_found = Len(seed_urls)]
           /\ history' = [history EXCEPT !.accepted = Cardinality(s.accepted)]
           /\ pc' = [w \in Workers |->
                        IF w <= c.num_workers THEN "top" ELSE "idle"]
    /\ phase' = "running"
    /\ UNCHANGED <<hvars, rvars, fvars, req, result, robots_cache, robots_lock, storage,
                   handed, popped>>

\* worker.py: "while self._running"; stop() clears the flag.  stop_called holds
\* a record for every worker stop() was called on: where the worker was, and
\* how many requests it has popped since.
running_always(w) == TRUE

running(w) == \A s \in stop_called : s.worker # w

\* The worker goes on with the request get() returned: _process_url up to its
\* first await.
start_request(w, g) ==
    /\ frontier' = g.F
    /\ req' = [req EXCEPT ![w] = g.ret]
    /\ handed' = [handed EXCEPT ![g.ret[1].url] = @ + 1]
    /\ popped' = popped \cup {g.ret[1]}
    /\ pc' = [pc EXCEPT ![w] =
                IF config.respect_robots THEN "is_allowed" ELSE "acquire"]

\* CrawlWorker.run: the top of the loop, up to the sleep or the first await of
\* _process_url.
run_top_unchecked(w) ==
    /\ phase = "running" /\ pc[w] = "top"
    /\ IF ~running(w)
       THEN /\ pc' = [pc EXCEPT ![w] = "stopped"]
            /\ UNCHANGED <<frontier, req, handed, popped>>
       ELSE LET g == MemoryFrontier_get(frontier)
            IN  IF g.ret = None
                THEN /\ frontier' = g.F
                     /\ pc' = [pc EXCEPT ![w] = "poll"]
                     /\ UNCHANGED <<req, handed, popped>>
                ELSE start_request(w, g)
    /\ history' = [history EXCEPT !.last_callback = "none"]
    /\ UNCHANGED <<hvars, rvars, fvars, config, phase, stats, result, robots_cache,
                   robots_lock, storage, held>>

run_top(w) ==
    /\ phase = "running" /\ pc[w] = "top"
    /\ IF ~running(w) \/ budget_reached(stats, config.max_pages)
       THEN /\ pc' = [pc EXCEPT ![w] = "stopped"]
            /\ UNCHANGED <<frontier, req, handed, popped>>
       ELSE LET g == MemoryFrontier_get(frontier)
            IN  IF g.ret = None
                THEN /\ frontier' = g.F
                     /\ pc' = [pc EXCEPT ![w] = "poll"]
                     /\ UNCHANGED <<req, handed, popped>>
                ELSE start_request(w, g)
    /\ history' = [history EXCEPT !.last_callback = "none"]
    /\ UNCHANGED <<hvars, rvars, fvars, config, phase, stats, result, robots_cache,
                   robots_lock, storage, held>>

\* worker.py: "if request is None: break" after the second get().
exit_on_empty_never(request) == FALSE

exit_on_empty(request) == request = None

\* CrawlWorker.run: after asyncio.sleep(0.5), the second get().
run_poll(w) ==
    /\ pc[w] = "poll"
    /\ LET g == MemoryFrontier_get(frontier)
       IN  IF g.ret = None
           THEN /\ frontier' = g.F
                /\ pc' = [pc EXCEPT ![w] =
                             IF exit_on_empty(g.ret) THEN "stopped" ELSE "poll"]
                /\ UNCHANGED <<req, handed, popped>>
           ELSE start_request(w, g)
    /\ stop_called' =
          IF MemoryFrontier_get(frontier).ret = None THEN stop_called
          ELSE {IF s.worker = w THEN [s EXCEPT !.popped = @ + 1] ELSE s :
                    s \in stop_called}
    /\ UNCHANGED <<hvars, rvars, fetcher, pvars, robots, dispatch, config, phase,
                   stats, result, robots_cache, robots_lock, storage, held,
                   history>>

\* _process_url once is_allowed(url) has its parser: the robots verdict.
robots_verdict(w, policy) ==
    LET url == req[w][1].url
    IN  IF ~can_fetch(policy, url)
        THEN /\ stats' = [stats EXCEPT !.total_pages_skipped = @ + 1]
             /\ frontier' = MemoryFrontier_mark_visited(frontier, url)
             /\ req' = [req EXCEPT ![w] = None]
             /\ pc' = [pc EXCEPT ![w] = "top"]
        ELSE /\ pc' = [pc EXCEPT ![w] = "get_crawl_delay"]
             /\ UNCHANGED <<stats, frontier, req>>

\* RobotsHandler.is_allowed -> get_parser: takes the lock; a cached host is
\* answered at once, an unknown host starts _fetch_robots under the lock.
is_allowed(w) ==
    /\ pc[w] = "is_allowed" /\ robots_lock_free(robots_lock)
    /\ LET domain == Host(req[w][1].url)
       IN  IF robots_cache[domain] # None
           THEN /\ robots_verdict(w, robots_cache[domain][1])
                /\ UNCHANGED <<robots_cache, robots_lock, history>>
           ELSE /\ robots_lock' = w
                /\ history' = [history EXCEPT !.robots_fetches[domain] = @ + 1]
                /\ pc' = [pc EXCEPT ![w] = "fetch_robots"]
                /\ UNCHANGED <<robots_cache, stats, frontier, req>>
    /\ UNCHANGED <<hvars, rvars, fvars, config, phase, result, storage, handed, held, popped>>

\* RobotsHandler._fetch_robots returns: the policy is cached, the lock released.
fetch_robots(w) ==
    /\ pc[w] = "fetch_robots" /\ robots_lock = w
    /\ LET domain == Host(req[w][1].url)
       IN  \E policy \in Policies(domain) :
              /\ robots_cache' = [robots_cache EXCEPT ![domain] = Some(policy)]
              /\ robots_lock' = 0
              /\ robots_verdict(w, policy)
    /\ UNCHANGED <<hvars, rvars, fvars, config, phase, result, storage, handed, held, popped,
                   history>>

\* RobotsHandler.get_crawl_delay -> get_parser: takes the lock again; the host is
\* cached by now.  The delay it installs belongs to the rate limiter (SpecRate).
get_crawl_delay(w) ==
    /\ pc[w] = "get_crawl_delay" /\ robots_lock_free(robots_lock)
    /\ pc' = [pc EXCEPT ![w] = "acquire"]
    /\ UNCHANGED <<frontier, hvars, rvars, fvars, config, phase, stats, req, result,
                   robots_cache, robots_lock, storage, handed, held, popped, history>>

\* rate_limiter.acquire(domain) returns; mark_visited(url); the fetch starts.
acquired(w) ==
    /\ pc[w] = "acquire"
    /\ frontier' = MemoryFrontier_mark_visited(frontier, req[w][1].url)
    /\ history' = [history EXCEPT !.fetch_started = @ \cup {req[w][1].url}]
    /\ pc' = [pc EXCEPT ![w] = "fetch"]
    /\ UNCHANGED <<hvars, rvars, fvars, config, phase, stats, req, result, robots_cache,
                   robots_lock, storage, handed, held, popped>>

\* run's "except Exception": the failure is counted and the loop goes on.
run_except_break(w) ==
    /\ stats' = [stats EXCEPT !.total_pages_failed = @ + 1]
    /\ req' = [req EXCEPT ![w] = None]
    /\ result' = [result EXCEPT ![w] = NoResult]
    /\ history' = [history EXCEPT !.raised = @ + 1]
    /\ pc' = [pc EXCEPT ![w] = "stopped"]

run_except(w) ==
    /\ stats' = [stats EXCEPT !.total_pages_failed = @ + 1]
    /\ req' = [req EXCEPT ![w] = None]
    /\ result' = [result EXCEPT ![w] = NoResult]
    /\ history' = [history EXCEPT !.raised = @ + 1]
    /\ pc' = [pc EXCEPT ![w] = "top"]

\* fetch(request) returns: a failed or skipped result is counted, a completed
\* one is parsed and its links extracted (either may raise); then the await of
\* storage.save.
fetched(w) ==
    /\ pc[w] = "fetch"
    /\ \/ \E status \in {"failed", "skipped"} :
            /\ stats' = count_terminal(stats, status)
            /\ result' = [result EXCEPT ![w] =
                            [status |-> status, html |-> <<>>, links |-> <<>>]]
            /\ pc' = [pc EXCEPT ![w] = "save_terminal"]
            /\ UNCHANGED <<req, history>>
       \/ \E hrefs \in LinkLists :
            /\ result' = [result EXCEPT ![w] =
                            [status |-> "completed", html |-> hrefs,
                             links |-> extract_links(config, hrefs, req[w][1].url)]]
            /\ pc' = [pc EXCEPT ![w] = "save"]
            /\ UNCHANGED <<stats, req, history>>
       \/ run_except(w)
    /\ UNCHANGED <<frontier, hvars, rvars, fvars, config, phase, robots_cache,
                   robots_lock, storage, handed, held, popped>>

\* storage.save of a failed or skipped result returns, or raises.
save_terminal(w) ==
    /\ pc[w] = "save_terminal"
    /\ \/ /\ storage' = [storage EXCEPT ![req[w][1].url] = Some(result[w].status)]
          /\ history' = [history EXCEPT !.saved[result[w].status] = @ + 1]
          /\ req' = [req EXCEPT ![w] = None]
          /\ result' = [result EXCEPT ![w] = NoResult]
          /\ pc' = [pc EXCEPT ![w] = "top"]
          /\ stats' = stats
       \/ /\ run_except(w)
          /\ storage' = storage
    /\ UNCHANGED <<frontier, hvars, rvars, fvars, config, phase, robots_cache, robots_lock,
                   handed, held, popped>>

\* storage.save of a completed result returns (the stats are updated, the
\* callback is invoked and returns or raises, the links are queued), or raises.
save_completed(w) ==
    /\ pc[w] = "save"
    /\ \/ \E raises \in IF config.on_page_crawled THEN BOOLEAN ELSE {FALSE} :
          LET request == req[w][1]
              escaped == callback_escapes(raises)
              e == IF may_enqueue(request) /\ ~escaped
                   THEN enqueue_links(frontier, request, result[w].links, 0, {})
                   ELSE [F |-> frontier, found |-> 0, accepted |-> {}]
          IN  /\ storage' = [storage EXCEPT ![request.url] = Some("completed")]
              /\ stats' = [stats EXCEPT
                              !.total_pages_crawled = @ + 1,
                              !.total_urls_found = @ + e.found,
                              !.total_pages_failed = IF escaped THEN @ + 1 ELSE @]
              /\ history' = [history EXCEPT
                                !.saved["completed"] = @ + 1,
                                !.callbacks = invoke_callback(config, @),
                                !.last_callback =
                                    IF ~config.on_page_crawled THEN @
                                    ELSE IF raises THEN "raised" ELSE "returned",
                                !.raised = IF escaped THEN @ + 1 ELSE @,
                                !.accepted = @ + e.found]
              /\ frontier' = e.F
              /\ held' = held \cup e.accepted
              /\ req' = [req EXCEPT ![w] = None]
              /\ result' = [result EXCEPT ![w] = NoResult]
              /\ pc' = [pc EXCEPT ![w] = "top"]
       \/ /\ run_except(w)
          /\ UNCHANGED <<storage, frontier, held>>
    /\ UNCHANGED <<hvars, rvars, fvars, config, phase, robots_cache, robots_lock, handed, popped>>

\* asyncio.gather returns once every worker has left its loop.
crawl_return ==
    /\ phase = "running"
    /\ \A w \in Workers : pc[w] \in {"stopped", "idle"}
    /\ phase' = "done"
    /\ UNCHANGED <<frontier, hvars, rvars, fvars, config, stats, pc, req, result, robots_cache,
                   robots_lock, storage, handed, held, popped, history>>

Next ==
    \/ \E seed_urls \in SeedLists : crawl(seed_urls)
    \/ \E w \in Workers :
          \/ run_top(w) \/ run_poll(w)
          \/ is_allowed(w) \/ fetch_robots(w) \/ get_crawl_delay(w)
          \/ acquired(w) \/ fetched(w)
          \/ save_terminal(w) \/ save_completed(w)
    \/ crawl_return

Spec == Init /\ [][Next]_vars

\* Crawls whose page budget exceeds the number of URLs there are: the workers
\* leave only after two empty polls.
DrainPages == CrawlUrls + 1

DrainConfigs ==
    {c \in [max_depth : {1}, max_pages : {DrainPages},
            num_workers : 1..NumWorkers, respect_robots : BOOLEAN,
            same_domain_only : {FALSE}, allowed_domains : {{}},
            on_page_crawled : {FALSE}] : validate(c)}

InitDrain ==
    /\ frontier = MemoryFrontier_init
    /\ calls = 0 /\ last = NoCall /\ log = <<>>
    /\ config \in DrainConfigs
    /\ phase = "constructed"
    /\ stats = CrawlStats_init
    /\ pc = [w \in Workers |-> "idle"]
    /\ req = [w \in Workers |-> None]
    /\ result = [w \in Workers |-> NoResult]
    /\ robots_cache = [h \in Hosts |-> None]
    /\ robots_lock = 0
    /\ storage = [u \in CrawlURLs |-> None]
    /\ handed = [u \in CrawlURLs |-> 0]
    /\ held = {}
    /\ popped = {}
    /\ history = History_init
    /\ NoRate
    /\ NoFetch /\ NoParts

SpecDrain == InitDrain /\ [][Next]_vars

\* CrawlWorker.stop(), called by another task while worker w is suspended
\* inside its loop (at the sleep between the polls, or at an await of
\* _process_url).
stop(w) ==
    /\ phase = "running" /\ pc[w] \notin {"idle", "top", "stopped"}
    /\ running(w) /\ Cardinality(stop_called) < MaxStops
    /\ stop_called' = stop_called \cup
            {[worker |-> w, popped |-> 0,
              at |-> IF pc[w] = "poll" THEN "poll" ELSE "process_url"]}
    /\ UNCHANGED <<frontier, hvars, cvars, rvars, fetcher, pvars, robots, dispatch>>

StopConfigs ==
    {c \in [max_depth : {1}, max_pages : {MaxPages},
            num_workers : {NumWorkers}, respect_robots : {TRUE},
            same_domain_only : {FALSE}, allowed_domains : {{}},
            on_page_crawled : {FALSE}] : validate(c)}

InitStop == Init /\ config \in StopConfigs

NextStop == Next \/ \E w \in Workers : stop(w)

SpecStop == InitStop /\ [][NextStop]_vars

\* One step of worker w of the pool.
WorkerStep(w) ==
    \/ run_top(w) \/ run_poll(w)
    \/ is_allowed(w) \/ fetch_robots(w) \/ get_crawl_delay(w)
    \/ acquired(w) \/ fetched(w)
    \/ save_terminal(w) \/ save_completed(w)

\* The crawls whose termination is checked: robots.txt respected, both workers
\* started, links of the seeds' hosts followed to depth 1 at least.
LiveConfigs ==
    {c \in Configs : /\ c.respect_robots
                     /\ c.same_domain_only
                     /\ c.num_workers = NumWorkers
                     /\ c.max_depth >= 1
                     /\ ~c.on_page_crawled}

InitLive == Init /\ config \in LiveConfigs

\* The event loop runs every task that is ready, sleeps end, and each fetch,
\* robots.txt request, rate-limiter wait and save eventually returns or raises:
\* a worker that can take a step takes one; gather returns once it can.
SpecLive ==
    /\ InitLive /\ [][Next]_vars
    /\ \A w \in Workers : WF_vars(WorkerStep(w))
    /\ WF_vars(crawl_return)

\* -------------------------------------------------------- claims on the crawl

\* C1: once get() has returned a request for URL u to some worker, no later
\* get() returns a request for u again during the crawl.
C1_NeverHandedTwice == \A u \in CrawlURLs : handed[u] <= 1

\* C5 as stated: crawled + failed + skipped never exceeds max_pages by more
\* than num_workers - 1.
C5_SumWithinBudget ==
    stats.total_pages_crawled + stats.total_pages_failed
        + stats.total_pages_skipped <= config.max_pages + config.num_workers - 1

\* C5, amended: total_pages_crawled never exceeds max_pages by more than
\* num_workers - 1, whatever the mix of completed, failed and skipped outcomes.
C5_CrawledWithinBudget ==
    stats.total_pages_crawled <= config.max_pages + config.num_workers - 1

\* The race at the boundary: with failures and skips counted too, the workers
\* have crawled past max_pages, up to the bound.
C5_Witness ==
    /\ config.num_workers >= 2
    /\ stats.total_pages_crawled = config.max_pages + config.num_workers - 1
    /\ stats.total_pages_failed >= 1
    /\ stats.total_pages_skipped >= 1

\* C37: a worker whose loop-top check finds total_pages_crawled >= max_pages
\* pops no request and leaves the loop, and total_pages_crawled never exceeds
\* max_pages + num_workers - 1.
C37_NoPopAtReachedBudget ==
    [][/\ \A w \in Workers :
            ( /\ pc[w] = "top" /\ pc'[w] # "top"
              /\ stats.total_pages_crawled >= config.max_pages )
            => /\ pc'[w] = "stopped"
               /\ req'[w] = None
               /\ frontier' = frontier /\ handed' = handed
       /\ stats'.total_pages_crawled
              <= config.max_pages + config.num_workers - 1
      ]_vars

\* Two workers have crawled one page past max_pages, and one of them has left
\* the loop at its check with an eligible request still queued.
C37_Witness ==
    /\ config.num_workers >= 2
    /\ stats.total_pages_crawled = config.max_pages + config.num_workers - 1
    /\ \E w \in Workers : pc[w] = "stopped"
    /\ Eligible(frontier) # {}

\* The number of requests get() has handed to the workers: the sum of handed
\* over the URLs of S.
RECURSIVE HandedOut(_)
HandedOut(S) ==
    IF S = {} THEN 0
    ELSE LET u == CHOOSE x \in S : TRUE
         IN  handed[u] + HandedOut(S \ {u})

\* C38: every request handed to a worker adds exactly 1 to exactly one of
\* total_pages_crawled, total_pages_failed and total_pages_skipped, also when
\* processing raises: when crawl() returns the three counters sum to the number
\* of requests handed out.
C38_OneCountPerRequest ==
    phase = "done" =>
        stats.total_pages_crawled + stats.total_pages_failed
            + stats.total_pages_skipped = HandedOut(CrawlURLs)

\* C36: when crawl() returns with total_pages_crawled < max_pages, the frontier
\* is empty and every URL for which add() returned true is visited (a seed with
\* two leaf children gives three crawled pages for every num_workers).
C36_DrainedAtReturn ==
    (phase = "done" /\ stats.total_pages_crawled < config.max_pages) =>
        /\ MemoryFrontier_size(frontier) = 0
        /\ \A r \in held : MemoryFrontier_is_visited(frontier, r.url)

\* Two workers have returned from a crawl of one seed and its two children at
\* depth 1: three pages crawled, below max_pages.
C36_Witness ==
    /\ phase = "done" /\ config.num_workers = 2
    /\ stats.total_pages_crawled = 3
    /\ stats.total_pages_crawled < config.max_pages
    /\ Cardinality({r \in held : r.depth = 0}) = 1
    /\ Cardinality({r \in held : r.depth = 1}) = 2
    /\ \A u \in CrawlURLs : handed[u] = 1

\* C34 as stated: after stop() was called on a worker inside its loop, the
\* worker pops no further request.
C34_NoPopAfterStop ==
    [][\A w \in Workers :
          ~running(w) => ~(req[w] = None /\ req'[w] # None)]_vars

\* C34, amended: after stop() the worker pops at most one further request, and
\* only with the second get() of an iteration it had begun (stop() came during
\* the sleep between the polls); at its next loop-top check it leaves the loop
\* without a pop.
C34_LeavesAtNextCheck ==
    [][/\ \A s \in stop_called' :
            /\ s.popped <= 1
            /\ s.popped = 1 => s.at = "poll"
       /\ \A w \in Workers :
            ~running(w) =>
               /\ (req[w] = None /\ req'[w] # None) => pc[w] = "poll"
               /\ (pc[w] = "top" /\ pc'[w] # "top") =>
                      /\ pc'[w] = "stopped"
                      /\ frontier' = frontier /\ handed' = handed
      ]_vars

\* stop() came while the worker slept between its polls: the worker has popped
\* one more request, processed it and left the loop at the next check.
C34_Witness ==
    \E s \in stop_called :
        /\ s.at = "poll" /\ s.popped = 1
        /\ pc[s.worker] = "stopped"

\* C6: every request the frontier ever held has depth <= max_depth; a child has
\* its parent's depth + 1 and its parent's max_depth, and its parent was below
\* max_depth (so max_depth = 0 admits no child).
C6_DepthBounded ==
    \A r \in held :
        /\ r.max_depth = config.max_depth
        /\ r.depth <= r.max_depth
        /\ r.parent_url # 0 =>
              \E parent \in popped :
                  /\ parent.url = r.parent_url
                  /\ r.depth = parent.depth + 1
                  /\ r.max_depth = parent.max_depth
                  /\ parent.depth < parent.max_depth
        /\ r.parent_url = 0 => r.depth = 0

\* A child at the deepest level allowed has been queued, and its own page has
\* been crawled without its links being queued.
C6_Witness ==
    /\ config.max_depth >= 1
    /\ \E r \in held : r.depth = config.max_depth /\ r.parent_url # 0
    /\ \E r \in popped :
          /\ r.depth = r.max_depth
          /\ storage[r.url] = Some("completed")

\* C11: once the fetch of URL u has started, u is in the frontier's visited
\* set (the worker marked it before it fetched), and from then on add(u)
\* returns false, whatever request carries u.
C11_VisitedBeforeFetch ==
    /\ \A w \in Workers :
          pc[w] \in {"fetch", "save", "save_terminal"} =>
              req[w][1].url \in history.fetch_started
    /\ \A u \in history.fetch_started :
          /\ MemoryFrontier_is_visited(frontier, u)
          /\ \A depth \in 0..MaxDepth, parent_url \in {0} \cup CrawlURLs :
                ~MemoryFrontier_add(frontier,
                    CrawlRequest(u, depth, config.max_depth, parent_url, 0)).ret

\* While one worker fetches u, another holds a crawled page that links to u
\* and is about to add it.
C11_Witness ==
    \E w, v \in Workers :
        /\ w # v
        /\ pc[v] = "fetch"
        /\ pc[w] = "save" /\ may_enqueue(req[w][1])
        /\ req[v][1].url \in Range(result[w].links)
        /\ req[v][1].url \notin frontier.in_queue

\* The cached robots policy of u's host denies u.
Disallowed(u) ==
    /\ robots_cache[Host(u)] # None
    /\ u \in robots_cache[Host(u)][1]

\* C12: with respect_robots on, no worker is ever past the robots gate (at the
\* rate limiter, the fetcher or the storage) with a URL its host's cached
\* policy disallows; the step that gets the verdict adds 1 to
\* total_pages_skipped and to nothing else, marks the URL visited, stores
\* nothing and takes the worker back to the top of its loop.
C12_DisallowedNeverFetched ==
    [][\A w \in Workers :
          /\ ( /\ config.respect_robots
               /\ pc'[w] \in {"get_crawl_delay", "acquire", "fetch", "save",
                              "save_terminal"} )
             => ~( /\ robots_cache'[Host(req'[w][1].url)] # None
                   /\ req'[w][1].url \in robots_cache'[Host(req'[w][1].url)][1] )
          /\ ( /\ pc[w] \in {"is_allowed", "fetch_robots"}
               /\ pc'[w] # pc[w]
               /\ robots_cache'[Host(req[w][1].url)] # None
               /\ req[w][1].url \in robots_cache'[Host(req[w][1].url)][1] )
             => /\ stats' = [stats EXCEPT !.total_pages_skipped = @ + 1]
                /\ req[w][1].url \in frontier'.visited
                /\ frontier'.queue = frontier.queue
                /\ storage' = storage
                /\ history'.saved = history.saved
                /\ history'.fetch_started = history.fetch_started
                /\ pc'[w] = "top"
                /\ req'[w] = None
      ]_vars

\* One URL of a host has been crawled and another, which robots.txt of the
\* host disallows, has been skipped: visited, never fetched, nothing stored.
C12_Witness ==
    /\ config.respect_robots
    /\ stats.total_pages_skipped = 1
    /\ \E u, v \in CrawlURLs :
          /\ Host(u) = Host(v)
          /\ storage[u] = Some("completed")
          /\ Disallowed(v)
          /\ handed[v] = 1
          /\ v \in frontier.visited
          /\ v \notin history.fetch_started
          /\ storage[v] = None
    /\ \A w \in Workers : pc[w] \in {"top", "poll", "stopped", "idle"}

\* C13: robots.txt of a host is requested at most once, however many workers
\* ask for the host's policy before the first request has completed.
C13_RobotsFetchedOnce == \A h \in Hosts : history.robots_fetches[h] <= 1

\* Two workers hold URLs of one host that is not cached yet: one is fetching
\* its robots.txt, the other waits in get_parser.
C13_Witness ==
    \E w, v \in Workers :
        /\ pc[w] = "fetch_robots" /\ pc[v] = "is_allowed"
        /\ Host(req[w][1].url) = Host(req[v][1].url)
        /\ history.robots_fetches[Host(req[w][1].url)] = 1

\* C14: no lock of the robots gate is held while an HTTP request (a page
\* fetch or a robots.txt fetch) of its holder is in progress.
C14_NoLockAcrossNetworkIO ==
    \A w \in Workers : pc[w] \in {"fetch_robots", "fetch"} => robots_lock # w

SeedHosts == {Host(r.url) : r \in {q \in held : q.parent_url = 0}}

\* C18: with same_domain_only on and no allow-list configured, every request
\* ever queued, and every URL ever fetched, is on the host of a seed.
C18_SeedHostsOnly ==
    config.same_domain_only =>
        /\ \A r \in held : Host(r.url) \in SeedHosts
        /\ \A u \in history.fetch_started : Host(u) \in SeedHosts

\* A crawled page carries a link to another host and a link to its own host:
\* only the second is among the links the worker is about to queue.
C18_Witness ==
    /\ config.same_domain_only
    /\ \E w \in Workers :
          /\ pc[w] = "save" /\ may_enqueue(req[w][1])
          /\ \E i \in DOMAIN result[w].html :
                /\ Host(result[w].html[i]) \notin SeedHosts
                /\ result[w].html[i] \notin Range(result[w].links)
          /\ result[w].links # <<>>

\* C19: the step in which run() catches an exception adds 1 to
\* total_pages_failed, leaves the worker at the top of its loop, stops no
\* worker and leaves the crawl running.
C19_ExceptionCaught ==
    [][history'.raised # history.raised
          => /\ history'.raised = history.raised + 1
             /\ stats' = [stats EXCEPT !.total_pages_failed = @ + 1]
             /\ \E w \in Workers :
                   /\ pc'[w] = "top" /\ pc[w] # "top"
                   /\ \A v \in Workers \ {w} : pc'[v] = pc[v]
             /\ phase' = "running"
      ]_vars

\* A single worker caught an exception, went on to crawl a page, and the crawl
\* has returned.
C19_Witness ==
    /\ phase = "done"
    /\ config.num_workers = 1 /\ config.max_pages = 1
    /\ history.raised = 1
    /\ stats.total_pages_failed = 1
    /\ stats.total_pages_crawled = 1

C21_CallbackExceptionSwallowed ==
    [][\A w \in Workers :
          ( /\ pc[w] = "save"
            /\ history'.callbacks = history.callbacks + 1
            /\ history'.last_callback = "raised"
            /\ pc'[w] # pc[w] )
          => LET request == req[w][1]
                 e == IF request.depth < request.max_depth
                      THEN enqueue_links(frontier, request, result[w].links, 0, {})
                      ELSE [F |-> frontier, found |-> 0, accepted |-> {}]
             IN  /\ storage'[request.url] = Some("completed")
                 /\ history'.saved["completed"] = history.saved["completed"] + 1
                 /\ history'.raised = history.raised
                 /\ stats' = [stats EXCEPT
                                 !.total_pages_crawled = @ + 1,
                                 !.total_urls_found = @ + e.found]
                 /\ frontier' = e.F
                 /\ held' = held \cup e.accepted
                 /\ pc'[w] = "top"
      ]_vars

\* The callback has raised on a page whose links were then queued: a child of
\* that page is in the frontier and nothing has failed.
C21_Witness ==
    /\ config.on_page_crawled
    /\ history.last_callback = "raised"
    /\ history.callbacks = 1
    /\ stats.total_pages_crawled = 1
    /\ stats.total_pages_failed = 0
    /\ \E r \in held : r.parent_url # 0 /\ r.url \in frontier.in_queue

\* C27: a running crawl terminates: every worker that was started leaves its
\* loop and crawl() returns.
C27_CrawlTerminates ==
    (phase = "running")
        ~> (phase = "done" /\ \A w \in 1..config.num_workers : pc[w] = "stopped")

\* crawl() has returned after the frontier ran empty below the page budget,
\* with pages crawled and links followed.
C27_Witness ==
    /\ phase = "done"
    /\ \A w \in 1..config.num_workers : pc[w] = "stopped"
    /\ stats.total_pages_crawled >= 1
    /\ stats.total_pages_crawled < config.max_pages
    /\ \E r \in popped : r.depth >= 1

\* C31: a worker whose robots query (is_allowed or get_crawl_delay) is for a
\* host already in the cache is never kept waiting by the lock while another
\* worker's first robots.txt request for a different host is in progress.
C31_CachedQueryNeverWaits ==
    \A w \in Workers :
        ( /\ pc[w] \in {"is_allowed", "get_crawl_delay"}
          /\ robots_cache[Host(req[w][1].url)] # None )
        => ~ \E v \in Workers \ {w} :
                /\ pc[v] = "fetch_robots" /\ robots_lock = v
                /\ Host(req[v][1].url) # Host(req[w][1].url)

\* C26: total_urls_found is the number of add() calls that have returned true,
\* seeds and children, so far.
C26_FoundEqualsAccepted == stats.total_urls_found = history.accepted

\* ------------------------------------------- the rate limiter and the fetcher

RateHosts == 1..MaxHosts

\* requests_per_second is a float: it is held in quarters (rps4 = 4 * R), so
\* that R = 0.25, 0.5, 0.75, 1.0, ... are all there.  Delays are whole ticks.
\* crawl_delay[h] is what robots.txt of h declares (0: none declared).
RateConfigs ==
    [rps4 : {1, MaxRps4}, per_domain_delay : 0..MaxDelay,
     crawl_delay : {[h \in RateHosts |-> 0],
                    [h \in RateHosts |-> IF h = 1 THEN MaxDelay ELSE 0]},
     max_retries : {0, MaxRetries}, retry_delay : {1}]

\* config.py: validate, on the fields of RateConfigs
validate_rate(c) ==
    /\ c.rps4 > 0
    /\ c.per_domain_delay >= 0
    /\ c.max_retries >= 0

Max(a, b) == IF a >= b THEN a ELSE b

RECURSIVE Pow2(_)
Pow2(n) == IF n = 0 THEN 1 ELSE 2 * Pow2(n - 1)

\* RateLimiter.__init__: max(1, int(requests_per_second * 2))
semaphore_value(c) == Max(1, (c.rps4 * 2) \div 4)

RateLimiter_init(c) ==
    [semaphore |-> semaphore_value(c),
     domain_locks |-> [h \in RateHosts |-> 0],
     domain_last_request |-> [h \in RateHosts |-> 0],
     domain_delays |-> [h \in RateHosts |-> None]]

\* _get_domain_lock: the lock of a domain is named by the domain
get_domain_lock_global(domain) == 1

get_domain_lock(domain) == domain

set_domain_delay(L, domain, delay) ==
    [L EXCEPT !.domain_delays[domain] = Some(delay)]

get_delay_for_domain(L, c, domain) ==
    IF L.domain_delays[domain] # None
    THEN L.domain_delays[domain][1]
    ELSE c.per_domain_delay

\* acquire: wait_time = delay - (now - last)
wait_time_swapped(delay, t, lastreq) == (t - lastreq) - delay

wait_time(delay, t, lastreq) == delay - (t - lastreq)

\* asyncio.Semaphore.release
semaphore_keep(value) == value

semaphore_release(value) == value + 1

\* The histories keep the last two times of each domain: every two consecutive
\* times are the last two at the moment the second is recorded.
Record(times, t) ==
    IF Len(times) < 2 THEN Append(times, t) ELSE <<times[2], t>>

\* fetcher.py: delay = self.retry_delay * (2 ** attempt)
backoff_linear(c, n) == c.retry_delay * (n + 1)

backoff(c, n) == c.retry_delay * Pow2(n)

InitRate ==
    /\ frontier = MemoryFrontier_init
    /\ calls = 0 /\ last = NoCall /\ log = <<>>
    /\ NoCrawl
    /\ NoFetch /\ NoParts
    /\ now = 0
    /\ rconfig \in {c \in RateConfigs : validate_rate(c)}
    /\ limiter = RateLimiter_init(rconfig)
    /\ rpc = [w \in Workers |-> "idle"]
    /\ rhost = [w \in Workers |-> 0]
    /\ wake = [w \in Workers |-> 0]
    /\ attempt = [w \in Workers |-> 0]
    /\ rounds = [w \in Workers |-> 0]
    /\ acquire_returns = [h \in RateHosts |-> <<>>]
    /\ fetch_starts = [h \in RateHosts |-> <<>>]

\* acquire, from the write of _domain_last_request to its return, and
\* _process_url from there to the first HTTP request of fetch(): no await
\* suspends in between.
acquire_return_keep_lock(w, h, L) ==
    /\ limiter' = [L EXCEPT
                      !.domain_last_request[h] = now,
                      !.semaphore = semaphore_release(@)]
    /\ acquire_returns' = [acquire_returns EXCEPT ![h] = Record(@, now)]
    /\ fetch_starts' = [fetch_starts EXCEPT ![h] = Record(@, now)]
    /\ attempt' = [attempt EXCEPT ![w] = 0]
    /\ rpc' = [rpc EXCEPT ![w] = "fetching"]
    /\ wake' = [wake EXCEPT ![w] = 0]

acquire_return(w, h, L) ==
    /\ limiter' = [L EXCEPT
                      !.domain_last_request[h] = now,
                      !.domain_locks[get_domain_lock(h)] = 0,
                      !.semaphore = semaphore_release(@)]
    /\ acquire_returns' = [acquire_returns EXCEPT ![h] = Record(@, now)]
    /\ fetch_starts' = [fetch_starts EXCEPT ![h] = Record(@, now)]
    /\ attempt' = [attempt EXCEPT ![w] = 0]
    /\ rpc' = [rpc EXCEPT ![w] = "fetching"]
    /\ wake' = [wake EXCEPT ![w] = 0]

\* acquire, under the domain lock: sleep for wait_time if it is positive.
acquire_under_lock(w, h, L) ==
    LET delay == get_delay_for_domain(L, rconfig, h)
        wt == wait_time(delay, now, L.domain_last_request[h])
    IN  IF wt > 0
        THEN /\ limiter' = L
             /\ wake' = [wake EXCEPT ![w] = now + wt]
             /\ rpc' = [rpc EXCEPT ![w] = "sleep"]
             /\ UNCHANGED <<acquire_returns, fetch_starts, attempt>>
        ELSE acquire_return(w, h, L)

\* acquire, holding a permit: take the domain lock or wait for it.
acquire_with_permit(w, h, L) ==
    IF L.domain_locks[get_domain_lock(h)] # 0
    THEN /\ limiter' = L
         /\ rpc' = [rpc EXCEPT ![w] = "wait_lock"]
         /\ UNCHANGED <<wake, acquire_returns, fetch_starts, attempt>>
    ELSE acquire_under_lock(w, h,
            [L EXCEPT !.domain_locks[get_domain_lock(h)] = w])

\* acquire, from its call: take a permit or wait for one.
acquire(w, h, L) ==
    IF L.semaphore = 0
    THEN /\ limiter' = L
         /\ rpc' = [rpc EXCEPT ![w] = "wait_sem"]
         /\ UNCHANGED <<wake, acquire_returns, fetch_starts, attempt>>
    ELSE acquire_with_permit(w, h, [L EXCEPT !.semaphore = @ - 1])

\* _process_url for a URL of domain h, from the return of get_crawl_delay:
\* install the crawl delay, then call acquire(domain).
process_url(w, h) ==
    /\ rpc[w] = "idle" /\ rounds[w] < MaxRounds
    /\ rhost' = [rhost EXCEPT ![w] = h]
    /\ rounds' = [rounds EXCEPT ![w] = @ + 1]
    /\ acquire(w, h, IF rconfig.crawl_delay[h] # 0
                     THEN set_domain_delay(limiter, h, rconfig.crawl_delay[h])
                     ELSE limiter)
    /\ UNCHANGED <<frontier, hvars, cvars, fvars, now, rconfig>>

\* A worker waiting in _global_semaphore.acquire() gets its permit.
permit_granted(w) ==
    /\ rpc[w] = "wait_sem" /\ limiter.semaphore > 0
    /\ acquire_with_permit(w, rhost[w], [limiter EXCEPT !.semaphore = @ - 1])
    /\ UNCHANGED <<frontier, hvars, cvars, fvars, now, rconfig, rhost, rounds>>

\* A worker waiting for the domain lock gets it.
lock_granted(w) ==
    /\ rpc[w] = "wait_lock"
    /\ limiter.domain_locks[get_domain_lock(rhost[w])] = 0
    /\ acquire_under_lock(w, rhost[w],
            [limiter EXCEPT !.domain_locks[get_domain_lock(rhost[w])] = w])
    /\ UNCHANGED <<frontier, hvars, cvars, fvars, now, rconfig, rhost, rounds>>

\* asyncio.sleep(wait_time) is over.
sleep_over(w) ==
    /\ rpc[w] = "sleep" /\ now >= wake[w]
    /\ acquire_return(w, rhost[w], limiter)
    /\ UNCHANGED <<frontier, hvars, cvars, fvars, now, rconfig, rhost, rounds>>

\* The task is cancelled inside acquire: "async with" gives the domain lock
\* back, "finally" the permit.  A task still waiting for its permit holds nothing.
cancelled(w) ==
    /\ rpc[w] \in {"wait_sem", "wait_lock", "sleep"}
    /\ limiter' =
          IF rpc[w] = "wait_sem" THEN limiter
          ELSE IF rpc[w] = "wait_lock"
          THEN [limiter EXCEPT !.semaphore = semaphore_release(@)]
          ELSE [limiter EXCEPT
                   !.domain_locks[get_domain_lock(rhost[w])] = 0,
                   !.semaphore = semaphore_release(@)]
    /\ rpc' = [rpc EXCEPT ![w] = "cancelled"]
    /\ UNCHANGED <<frontier, hvars, cvars, fvars, now, rconfig, rhost, wake, attempt,
                   rounds, acquire_returns, fetch_starts>>

\* StaticFetcher.fetch: _do_fetch returns a response, or raises; after a raise
\* the loop sleeps retry_delay * 2^attempt unless this was the last attempt.
do_fetch_returns(w) ==
    /\ rpc[w] = "fetching"
    /\ \/ /\ rpc' = [rpc EXCEPT ![w] = "idle"]
          /\ attempt' = [attempt EXCEPT ![w] = 0]
          /\ wake' = wake
       \/ /\ attempt[w] < rconfig.max_retries
          /\ rpc' = [rpc EXCEPT ![w] = "backoff"]
          /\ wake' = [wake EXCEPT ![w] = now + backoff(rconfig, attempt[w])]
          /\ attempt' = attempt
       \/ /\ attempt[w] >= rconfig.max_retries
          /\ rpc' = [rpc EXCEPT ![w] = "idle"]
          /\ attempt' = [attempt EXCEPT ![w] = 0]
          /\ wake' = wake
    /\ UNCHANGED <<frontier, hvars, cvars, fvars, now, rconfig, limiter, rhost,
                   rounds, acquire_returns, fetch_starts>>

\* StaticFetcher.fetch: the sleep between two attempts is over, the next
\* attempt sends its request.
next_attempt(w) ==
    /\ rpc[w] = "backoff" /\ now >= wake[w]
    /\ attempt' = [attempt EXCEPT ![w] = @ + 1]
    /\ fetch_starts' = [fetch_starts EXCEPT ![rhost[w]] = Record(@, now)]
    /\ rpc' = [rpc EXCEPT ![w] = "fetching"]
    /\ wake' = [wake EXCEPT ![w] = 0]
    /\ UNCHANGED <<frontier, hvars, cvars, fvars, now, rconfig, limiter, rhost,
                   rounds, acquire_returns>>

\* time.monotonic() advances.
Tick ==
    /\ now < MaxTime
    /\ now' = now + 1
    /\ UNCHANGED <<frontier, hvars, cvars, fvars, rconfig, limiter, rpc, rhost, wake,
                   attempt, rounds, acquire_returns, fetch_starts>>

NextRate ==
    \/ \E w \in Workers :
          \/ \E h \in RateHosts : process_url(w, h)
          \/ permit_granted(w) \/ lock_granted(w) \/ sleep_over(w)
          \/ cancelled(w)
          \/ do_fetch_returns(w) \/ next_attempt(w)
    \/ Tick

SpecRate == InitRate /\ [][NextRate]_vars

\* The rate limiter with no end of time (SpecRateLive): once the clock shows
\* MaxTime, a tick moves every recorded time one tick into the past instead,
\* which keeps every difference now - t up to MaxTime as it is.
Earlier(t) == Max(0, t - 1)

TickLive ==
    /\ IF now < MaxTime
       THEN /\ now' = now + 1
            /\ UNCHANGED <<limiter, wake, acquire_returns, fetch_starts>>
       ELSE /\ now' = now
            /\ limiter' = [limiter EXCEPT !.domain_last_request =
                              [h \in RateHosts |-> Earlier(@[h])]]
            /\ wake' = [w \in Workers |-> Earlier(wake[w])]
            /\ acquire_returns' =
                  [h \in RateHosts |->
                      [i \in DOMAIN acquire_returns[h] |->
                          Earlier(acquire_returns[h][i])]]
            /\ fetch_starts' =
                  [h \in RateHosts |->
                      [i \in DOMAIN fetch_starts[h] |->
                          Earlier(fetch_starts[h][i])]]
    /\ UNCHANGED <<frontier, hvars, cvars, fvars, rconfig, rpc, rhost, attempt,
                   rounds>>

\* One permit or two, every delay, no retry of a fetch.
LiveRateConfigs ==
    {c \in RateConfigs : validate_rate(c) /\ c.max_retries = 0}

InitRateLive == InitRate /\ rconfig \in LiveRateConfigs

NextRateLive ==
    \/ \E w \in Workers :
          \/ \E h \in RateHosts : process_url(w, h)
          \/ permit_granted(w) \/ lock_granted(w) \/ sleep_over(w)
          \/ do_fetch_returns(w)
    \/ TickLive

\* asyncio.Semaphore and asyncio.Lock wake their waiters in the order of
\* arrival, so a waiter whose permit or lock becomes free again and again gets
\* it; the event loop ends every sleep whose time has come, and time goes on.
SpecRateLive ==
    /\ InitRateLive /\ [][NextRateLive]_vars
    /\ \A w \in Workers :
          /\ SF_vars(permit_granted(w)) /\ SF_vars(lock_granted(w))
          /\ WF_vars(sleep_over(w))
    /\ WF_vars(TickLive)

\* ------------------------------------------------ claims on the rate limiter

\* The delay configured for a domain: the per-domain override robots.txt
\* installs, else per_domain_delay.
ConfiguredDelay(h) ==
    IF rconfig.crawl_delay[h] # 0 THEN rconfig.crawl_delay[h]
    ELSE rconfig.per_domain_delay

\* Workers inside acquire(): called and not yet returned.
InAcquire == {w \in Workers : rpc[w] \in {"wait_sem", "wait_lock", "sleep"}}

\* Workers holding a permit of the global semaphore.
PermitHolders == {w \in Workers : rpc[w] \in {"wait_lock", "sleep"}}

\* C7: any two consecutive returns of acquire(h), by whichever workers, are at
\* least the delay configured for h apart.
C7_AcquireSpacing ==
    \A h \in RateHosts :
        Len(acquire_returns[h]) = 2 =>
            acquire_returns[h][2] - acquire_returns[h][1] >= ConfiguredDelay(h)

\* Two workers called acquire(h) for the same domain while its spacing was
\* pending, and both have returned.
C7_Witness ==
    \E h \in RateHosts :
        /\ ConfiguredDelay(h) >= 2
        /\ Len(acquire_returns[h]) = 2
        /\ acquire_returns[h][2] - acquire_returns[h][1] = ConfiguredDelay(h)
        /\ \A w \in Workers : rhost[w] = h /\ rounds[w] = 1 /\ rpc[w] = "fetching"

\* C8: any two HTTP requests the fetchers send to one host, retries after a
\* transport error included, start at least the host's delay apart.
C8_FetchSpacing ==
    \A h \in RateHosts :
        Len(fetch_starts[h]) = 2 =>
            fetch_starts[h][2] - fetch_starts[h][1] >= ConfiguredDelay(h)

\* C9: an acquire(h2) called while fewer than the cap of acquisitions are in
\* flight, none of them for h2, and with no spacing pending for h2, returns
\* in the step of its call, whatever waits are in progress for other domains.
C9_OtherDomainsNotDelayed ==
    [][\A w \in Workers, h2 \in RateHosts :
          ( /\ rpc[w] = "idle"
            /\ rpc'[w] # "idle"
            /\ rhost'[w] = h2
            /\ Cardinality(InAcquire) < semaphore_value(rconfig)
            /\ \A v \in InAcquire : rhost[v] # h2
            /\ now - limiter.domain_last_request[h2] >= ConfiguredDelay(h2) )
          => /\ rpc'[w] = "fetching"
             /\ acquire_returns'[h2][Len(acquire_returns'[h2])] = now
      ]_vars

\* acquire(h2) has returned at the time of its call while another worker was
\* asleep under the lock of h1.
C9_Witness ==
    \E w, v \in Workers :
        /\ rpc[v] = "sleep" /\ wake[v] > now
        /\ rpc[w] = "fetching" /\ rhost[w] # rhost[v]
        /\ ConfiguredDelay(rhost[w]) >= 1
        /\ acquire_returns[rhost[w]] # <<>>
        /\ acquire_returns[rhost[w]][Len(acquire_returns[rhost[w]])] = now
        /\ limiter.domain_last_request[rhost[v]] < now

\* C10 as stated: at most 2 * requests_per_second acquires hold a permit
\* (in quarters: 4 * holders <= 2 * rps4).
C10_HoldersWithinTwiceRate == 4 * Cardinality(PermitHolders) <= 2 * rconfig.rps4

\* C10, amended: at most max(1, floor(2 * requests_per_second)) acquires hold a
\* permit; the free permits are that number less the holders, so every exit of
\* acquire gives its permit back exactly once and the count is back at its
\* initial value when no acquire is in flight.
C10_PermitsConserved ==
    /\ Cardinality(PermitHolders) <= Max(1, (2 * rconfig.rps4) \div 4)
    /\ limiter.semaphore = Max(1, (2 * rconfig.rps4) \div 4) - Cardinality(PermitHolders)
    /\ InAcquire = {} => limiter.semaphore = semaphore_value(rconfig)

\* One acquire has returned and another was cancelled in its sleep; no acquire
\* is in flight and all permits are free again.
C10_Witness ==
    /\ InAcquire = {}
    /\ \E w \in Workers : rpc[w] = "cancelled" /\ wake[w] > 0
    /\ \E h \in RateHosts : acquire_returns[h] # <<>>
    /\ limiter.semaphore = semaphore_value(rconfig)
    /\ limiter.semaphore >= 2

\* C39: every acquire() call eventually returns: a worker waiting for a permit,
\* for the lock of its host, or sleeping under that lock, comes to its return.
C39_AcquireReturns ==
    \A w \in Workers :
        (rpc[w] \in {"wait_sem", "wait_lock", "sleep"}) ~> (rpc[w] = "fetching")

\* With one permit, both workers have come back from acquire() for the same
\* host: the second had to wait for the permit while the first slept.
C39_Witness ==
    /\ semaphore_value(rconfig) = 1 /\ ConfiguredDelay(1) > 0
    /\ \A w \in Workers : rpc[w] = "fetching" /\ rhost[w] = 1 /\ rounds[w] = 1
    /\ Len(acquire_returns[1]) = 2

\* ------------------------------------------------- fetcher.py, call by call

\* What one _do_fetch does: it returns on an HTTP response, whatever its status
\* code, or raises (asyncio.TimeoutError, aiohttp.ClientError, or another
\* exception, each with the message fetch() keeps as last_error).
StatusCodes == {200, 404, 500}
ContentTypes == {"text/html", "text/plain", "application/pdf"}
Errors == {"Request timed out", "ClientError", "Exception"}

DoFetchOutcomes ==
    {[kind |-> "response", status_code |-> c, content_type |-> t, error |-> ""] :
        c \in StatusCodes, t \in ContentTypes}
    \cup {[kind |-> "raise", status_code |-> 0, content_type |-> "", error |-> e] :
            e \in Errors}

\* CrawlResult, as far as fetch() fills it.
CrawlResult(status, status_code, error) ==
    [status |-> status, status_code |-> status_code, error |-> error]

\* _do_fetch: the result built from a response.
do_fetch_result(o) ==
    IF o.content_type # "text/html" /\ o.content_type # "text/plain"
    THEN CrawlResult("skipped", o.status_code, Some("Non-HTML content"))
    ELSE CrawlResult("completed", o.status_code, None)

StaticFetcher_init(max_retries, retry_delay) ==
    [max_retries |-> max_retries, retry_delay |-> retry_delay,
     pc |-> "idle", attempt |-> 0, last_error |-> None, result |-> None,
     attempts |-> <<>>, sleeps |-> <<>>, fetches |-> 0]

\* fetch: "for attempt in range(self.max_retries + 1)", i being the attempt
in_range_one_more(i, max_retries) == i < max_retries + 2

in_range(i, max_retries) == i < max_retries + 1

\* fetch: "if attempt < self.max_retries" before the sleep
retry_sleeps(i, max_retries) == i < max_retries

\* fetch: the loop goes to its next attempt, or ends and the failed result is
\* returned with the last error.
next_iteration(f) ==
    IF in_range(f.attempt + 1, f.max_retries)
    THEN [f EXCEPT !.attempt = @ + 1, !.pc = "do_fetch"]
    ELSE [f EXCEPT !.pc = "returned",
                   !.result = Some(CrawlResult("failed", 0, f.last_error))]

InitFetch ==
    /\ frontier = MemoryFrontier_init
    /\ calls = 0 /\ last = NoCall /\ log = <<>>
    /\ NoCrawl
    /\ NoRate /\ NoParts
    /\ fetcher \in {StaticFetcher_init(m, d) :
                       m \in 0..MaxFetchRetries, d \in 1..MaxRetryDelay}

\* fetch(request) is called: the first attempt sends its request.
StaticFetcher_fetch ==
    /\ fetcher.pc \in {"idle", "returned"}
    /\ fetcher.fetches < MaxFetches
    /\ fetcher' = [fetcher EXCEPT
                      !.pc = IF in_range(0, fetcher.max_retries)
                             THEN "do_fetch" ELSE "returned",
                      !.attempt = 0, !.last_error = None,
                      !.result = IF in_range(0, fetcher.max_retries)
                                 THEN None
                                 ELSE Some(CrawlResult("failed", 0, None)),
                      !.attempts = <<>>, !.sleeps = <<>>,
                      !.fetches = @ + 1]
    /\ UNCHANGED <<frontier, hvars, cvars, rvars, pvars, qvars>>

\* _do_fetch ends with outcome o: a response is returned at once; after a raise
\* the loop sleeps retry_delay * 2^attempt unless this was the last attempt.
StaticFetcher_do_fetch(o) ==
    /\ fetcher.pc = "do_fetch"
    /\ LET f == [fetcher EXCEPT !.attempts = Append(@, o)]
       IN  fetcher' =
             IF o.kind = "response"
             THEN [f EXCEPT !.pc = "returned",
                            !.result = Some(do_fetch_result(o))]
             ELSE LET g == [f EXCEPT !.last_error = Some(o.error)]
                  IN  IF retry_sleeps(g.attempt, g.max_retries)
                      THEN [g EXCEPT !.pc = "sleep",
                                     !.sleeps = Append(@, backoff(g, g.attempt))]
                      ELSE next_iteration(g)
    /\ UNCHANGED <<frontier, hvars, cvars, rvars, pvars, qvars>>

\* asyncio.sleep(delay) is over: the loop goes on.
retry_sleep_over ==
    /\ fetcher.pc = "sleep"
    /\ fetcher' = next_iteration(fetcher)
    /\ UNCHANGED <<frontier, hvars, cvars, rvars, pvars, qvars>>

NextFetch ==
    \/ StaticFetcher_fetch
    \/ \E o \in DoFetchOutcomes : StaticFetcher_do_fetch(o)
    \/ retry_sleep_over

SpecFetch == InitFetch /\ [][NextFetch]_vars

\* ------------------------------------------------------ claims on the fetcher

RECURSIVE SumSeq(_)
SumSeq(q) == IF q = <<>> THEN 0 ELSE Head(q) + SumSeq(Tail(q))

\* C15: a fetch() call makes at most max_retries + 1 attempts; every attempt
\* before the last one made raised; a response ends the call and is returned
\* with its status code (completed, or skipped for a non-HTML content type),
\* never failed; when every one of max_retries + 1 attempts raised the call
\* returns a failed result with the error of the last attempt.
C15_FetchAttempts ==
    LET f == fetcher
        n == Len(f.attempts)
    IN  /\ n <= f.max_retries + 1
        /\ \A i \in 1..(n - 1) : f.attempts[i].kind = "raise"
        /\ (n > 0 /\ f.attempts[n].kind = "response") => f.pc = "returned"
        /\ f.pc \in {"do_fetch", "sleep"} => f.result = None
        /\ f.pc = "returned" =>
              /\ n >= 1
              /\ f.result # None
              /\ IF f.attempts[n].kind = "response"
                 THEN /\ f.result[1].status_code = f.attempts[n].status_code
                      /\ f.result[1].status =
                            IF f.attempts[n].content_type \in {"text/html", "text/plain"}
                            THEN "completed" ELSE "skipped"
                 ELSE /\ n = f.max_retries + 1
                      /\ f.result[1].status = "failed"
                      /\ f.result[1].error = Some(f.attempts[n].error)

\* Every one of max_retries + 1 >= 3 attempts raised, the last with another
\* error than the first, and the failed result carries the last error.
C15_Witness ==
    LET f == fetcher
        n == Len(f.attempts)
    IN  /\ f.pc = "returned"
        /\ f.max_retries >= 2
        /\ n = f.max_retries + 1
        /\ f.attempts[n].kind = "raise"
        /\ f.attempts[1].error # f.attempts[n].error
        /\ f.result[1].status = "failed"
        /\ f.result[1].error = Some(f.attempts[n].error)

\* C16: the i-th sleep of a fetch() call (i from 0) lasts retry_delay * 2^i;
\* there is one sleep after every raised attempt but the last one allowed, so
\* a call that gets its response on attempt k has slept
\* retry_delay * (2^k - 1) in all.
C16_BackoffDoubling ==
    LET f == fetcher
        n == Len(f.attempts)
        raised_attempts == Cardinality({i \in 1..n : f.attempts[i].kind = "raise"})
    IN  /\ \A i \in 1..Len(f.sleeps) : f.sleeps[i] = f.retry_delay * Pow2(i - 1)
        /\ Len(f.sleeps) <= f.max_retries
        /\ f.pc \in {"sleep", "returned"} =>
              Len(f.sleeps) = IF raised_attempts <= f.max_retries
                              THEN raised_attempts ELSE f.max_retries
        /\ (f.pc = "returned" /\ n > 0 /\ f.attempts[n].kind = "response") =>
              SumSeq(f.sleeps) = f.retry_delay * (Pow2(n - 1) - 1)

\* Attempts 0 and 1 raised and attempt 2 got HTTP 200 with max_retries = 3:
\* the call slept retry_delay and then twice that.
C16_Witness ==
    LET f == fetcher
    IN  /\ f.pc = "returned"
        /\ f.max_retries = 3
        /\ Len(f.attempts) = 3
        /\ f.attempts[3].kind = "response" /\ f.attempts[3].status_code = 200
        /\ f.result[1].status = "completed"
        /\ f.sleeps = <<f.retry_delay, 2 * f.retry_delay>>

\* ------------------------------------------------- the end of crawl(): cleanup

\* The engine of the other specifications, not running.
NoEngine ==
    /\ frontier = MemoryFrontier_init
    /\ calls = 0 /\ last = NoCall /\ log = <<>>
    /\ NoCrawl /\ NoRate /\ NoFetch

\* stop() is not called and the later specifications are not running.
NoStop == stop_called = {} /\ robots = <<>> /\ dispatch = <<>>

\* crawler.py, _cleanup: the components in the order they are closed.
Components == <<"static_fetcher", "dynamic_fetcher", "storage", "frontier">>

CleanupConfigs ==
    [enable_dynamic : BOOLEAN, use_redis : BOOLEAN]

\* crawler.py, _cleanup: "if self.dynamic_fetcher", "if isinstance(self.frontier,
\* RedisFrontier)"; the other two are closed unconditionally.
has_close_call(c, comp) ==
    CASE comp = "dynamic_fetcher" -> c.enable_dynamic
      [] comp = "frontier" -> c.use_redis
      [] OTHER -> TRUE

\* _cleanup: "try: await x.close() except Exception: pass".  Whether what
\* close() raises leaves _cleanup.
close_escapes_uncaught(raises) == raises

close_escapes(raises) == FALSE

\* The close() methods: StaticFetcher.close awaits only an open session,
\* DynamicFetcher.close only a launched browser; JsonStorage.close writes the
\* file, MongoStorage.close and RedisFrontier.close close their client.
close_may_raise(k, comp) ==
    CASE comp = "static_fetcher" -> k.session = "open"
      [] comp = "dynamic_fetcher" -> k.browser = "open"
      [] OTHER -> TRUE

\* The position after the close of Components[i]: the next component _cleanup
\* closes, or the return of the statistics.
RECURSIVE cleanup_after(_, _)
cleanup_after(c, i) ==
    IF i >= Len(Components) THEN "returned"
    ELSE IF has_close_call(c, Components[i + 1]) THEN Components[i + 1]
    ELSE cleanup_after(c, i + 1)

ComponentIndex(comp) == CHOOSE i \in DOMAIN Components : Components[i] = comp

InitCleanup ==
    /\ NoEngine /\ NoStop
    /\ construction = <<>> /\ store = <<>> /\ rfrontier = <<>>
    /\ codec = <<>> /\ norm = <<>>
    /\ cleanup \in {[config |-> c, session |-> "none", browser |-> "none",
                     pc |-> "gather", close_calls |-> {}, close_raised |-> {}] :
                       c \in CleanupConfigs}

\* asyncio.gather returns, the finally clause runs and _cleanup starts.  The
\* workers have left the static fetcher with or without a session, the dynamic
\* fetcher with or without a browser.
gather_returns ==
    /\ cleanup # <<>> /\ cleanup.pc = "gather"
    /\ \E session \in {"none", "open"} :
       \E browser \in IF cleanup.config.enable_dynamic THEN {"none", "open"}
                      ELSE {"none"} :
          cleanup' = [cleanup EXCEPT !.session = session, !.browser = browser,
                                     !.pc = cleanup_after(cleanup.config, 0)]
    /\ UNCHANGED <<frontier, hvars, cvars, rvars, fetcher, qvars, construction, store,
                   rfrontier, codec, norm>>

\* _cleanup calls close() on one component; it returns or raises.
close(comp) ==
    /\ cleanup # <<>> /\ cleanup.pc = comp
    /\ \E raises \in IF close_may_raise(cleanup, comp) THEN BOOLEAN ELSE {FALSE} :
          cleanup' = [cleanup EXCEPT
                         !.close_calls = @ \cup {comp},
                         !.close_raised = IF raises THEN @ \cup {comp} ELSE @,
                         !.session = IF comp = "static_fetcher" /\ @ = "open" /\ ~raises
                                     THEN "closed" ELSE @,
                         !.browser = IF comp = "dynamic_fetcher" /\ @ = "open" /\ ~raises
                                     THEN "closed" ELSE @,
                         !.pc = IF close_escapes(raises) THEN "raised"
                                ELSE cleanup_after(cleanup.config,
                                                   ComponentIndex(comp))]
    /\ UNCHANGED <<frontier, hvars, cvars, rvars, fetcher, qvars, construction, store,
                   rfrontier, codec, norm>>

NextCleanup ==
    \/ gather_returns
    \/ \E comp \in Range(Components) : close(comp)

SpecCleanup == InitCleanup /\ [][NextCleanup]_vars

\* C22 as stated: when crawl() returns, close() has been called on the static
\* fetcher, the dynamic fetcher if there is one, the storage and the frontier.
C22_ClosesFrontierToo ==
    (cleanup # <<>> /\ cleanup.pc = "returned")
        => cleanup.close_calls =
              {"static_fetcher", "storage", "frontier"}
                  \cup (IF cleanup.config.enable_dynamic
                        THEN {"dynamic_fetcher"} ELSE {})

\* C22: no exception of a close() leaves crawl(), and when crawl() returns,
\* close() has been called on the static fetcher, the storage, the dynamic
\* fetcher if there is one and the frontier if it is the Redis one.
C22_ClosesAllPresent ==
    cleanup # <<>> =>
        /\ cleanup.pc # "raised"
        /\ cleanup.pc = "returned"
              => cleanup.close_calls =
                    {"static_fetcher", "storage"}
                        \cup (IF cleanup.config.enable_dynamic
                              THEN {"dynamic_fetcher"} ELSE {})
                        \cup (IF cleanup.config.use_redis
                              THEN {"frontier"} ELSE {})

\* crawl() has returned although the first close() raised, after the closes of
\* all four components.
C22_Witness ==
    /\ cleanup # <<>> /\ cleanup.pc = "returned"
    /\ "static_fetcher" \in cleanup.close_raised
    /\ cleanup.close_calls = Range(Components)

\* ------------------------------------------ construction: WebCrawler(config)

\* CrawlerConfig.validate: the message of the ValueError it raises, "ok" when
\* it returns.  The variants leave out the last check.
CrawlerConfig_validate_any_backend(c) ==
    IF c.max_depth < 0 THEN "max_depth must be >= 0"
    ELSE IF c.max_pages < 1 THEN "max_pages must be >= 1"
    ELSE IF c.request_timeout < 1 THEN "request_timeout must be >= 1"
    ELSE IF c.max_retries < 0 THEN "max_retries must be >= 0"
    ELSE IF c.requests_per_second <= 0 THEN "requests_per_second must be > 0"
    ELSE IF c.per_domain_delay < 0 THEN "per_domain_delay must be >= 0"
    ELSE IF c.num_workers < 1 THEN "num_workers must be >= 1"
    ELSE "ok"

CrawlerConfig_validate(c) ==
    IF c.max_depth < 0 THEN "max_depth must be >= 0"
    ELSE IF c.max_pages < 1 THEN "max_pages must be >= 1"
    ELSE IF c.request_timeout < 1 THEN "request_timeout must be >= 1"
    ELSE IF c.max_retries < 0 THEN "max_retries must be >= 0"
    ELSE IF c.requests_per_second <= 0 THEN "requests_per_second must be > 0"
    ELSE IF c.per_domain_delay < 0 THEN "per_domain_delay must be >= 0"
    ELSE IF c.num_workers < 1 THEN "num_workers must be >= 1"
    ELSE IF c.storage_backend \notin {"json", "mongodb"}
         THEN "storage_backend must be 'json' or 'mongodb'"
    ELSE "ok"

\* The configurations tried: every numeric field within ValidateSpan of its
\* threshold, three storage backends.
ValidateConfigs ==
    [max_depth : (0 - ValidateSpan)..ValidateSpan,
     max_pages : (1 - ValidateSpan)..(1 + ValidateSpan),
     request_timeout : (1 - ValidateSpan)..(1 + ValidateSpan),
     max_retries : (0 - ValidateSpan)..ValidateSpan,
     requests_per_second : (0 - ValidateSpan)..ValidateSpan,
     per_domain_delay : (0 - ValidateSpan)..ValidateSpan,
     num_workers : (1 - ValidateSpan)..1,
     storage_backend : {"json", "mongodb", "mysql"}]

\* WebCrawler._init_components: the components in the order they are created.
\* StorageFactory.create raises ValueError for a backend it does not know,
\* after the frontier has been created.  [error, components]
init_components(c) ==
    IF c.storage_backend \in {"json", "mongodb"}
    THEN [error |-> "ok",
          components |-> {"frontier", "storage", "rate_limiter", "robots_handler",
                          "parser", "link_extractor", "static_fetcher"}]
    ELSE [error |-> "Unknown storage backend", components |-> {"frontier"}]

InitValidate ==
    /\ NoEngine /\ NoStop
    /\ cleanup = <<>> /\ store = <<>> /\ rfrontier = <<>>
    /\ codec = <<>> /\ norm = <<>>
    /\ construction \in {[config |-> c, pc |-> "call", error |-> "ok",
                          components |-> {}, enqueued |-> 0] :
                            c \in ValidateConfigs}

\* WebCrawler.__init__: validate() raises, or the components are created.
WebCrawler_init ==
    /\ construction # <<>> /\ construction.pc = "call"
    /\ LET v == CrawlerConfig_validate(construction.config)
           i == init_components(construction.config)
       IN  construction' =
              IF v # "ok"
              THEN [construction EXCEPT !.pc = "raised", !.error = v]
              ELSE IF i.error # "ok"
              THEN [construction EXCEPT !.pc = "raised", !.error = i.error,
                                        !.components = i.components]
              ELSE [construction EXCEPT !.pc = "constructed",
                                        !.components = i.components]
    /\ UNCHANGED <<frontier, hvars, cvars, rvars, fetcher, qvars, cleanup, store,
                   rfrontier, codec, norm>>

\* crawl(seed_urls) on the crawler that was constructed: the seeds are queued.
WebCrawler_crawl(seed_urls) ==
    /\ construction # <<>> /\ construction.pc = "constructed"
    /\ construction' = [construction EXCEPT !.pc = "crawling",
                                            !.enqueued = Len(seed_urls)]
    /\ UNCHANGED <<frontier, hvars, cvars, rvars, fetcher, qvars, cleanup, store,
                   rfrontier, codec, norm>>

NextValidate ==
    \/ WebCrawler_init
    \/ \E seed_urls \in SeedLists : WebCrawler_crawl(seed_urls)

SpecValidate == InitValidate /\ [][NextValidate]_vars

\* The constraints as the documentation lists them.
Violates(c) ==
    \/ c.max_depth < 0 \/ c.max_pages < 1 \/ c.request_timeout < 1
    \/ c.max_retries < 0 \/ c.requests_per_second <= 0
    \/ c.per_domain_delay < 0 \/ c.num_workers < 1
    \/ c.storage_backend \notin {"json", "mongodb"}

\* C23: the constructor raises exactly for the configurations that violate a
\* constraint, and when it raises no component exists and nothing is queued;
\* only a constructed crawler queues requests.
C23_InvalidConfigRaisesFirst ==
    (construction # <<>> /\ construction.pc # "call") =>
        /\ Violates(construction.config) <=> construction.pc = "raised"
        /\ construction.pc = "raised"
              => construction.components = {} /\ construction.enqueued = 0
        /\ construction.pc \in {"constructed", "crawling"}
              => construction.components # {}

\* A configuration whose only fault is its storage backend has been refused
\* with nothing created.
C23_Witness ==
    /\ construction # <<>> /\ construction.pc = "raised"
    /\ construction.config.storage_backend = "mysql"
    /\ construction.config.max_depth = 0
    /\ construction.config.max_pages = 1
    /\ construction.config.request_timeout = 1
    /\ construction.config.max_retries = 0
    /\ construction.config.requests_per_second = 1
    /\ construction.config.per_domain_delay = 0
    /\ construction.config.num_workers = 1
    /\ construction.components = {}

\* ---------------------------------------------------- storage: JsonStorage

StoreUrls == 1..MaxStoreUrls
Titles == {"Old", "New"}

\* result.to_dict() as far as the storage looks at it: the key and a payload.
StoreRecords == [url : StoreUrls, title : Titles]

\* self._results, a dict in insertion order, as the sequence of its values.
\* d[key] = rec: an existing key keeps its place.
dict_setdefault(d, rec) ==
    IF \E i \in DOMAIN d : d[i].url = rec.url THEN d ELSE Append(d, rec)

dict_set(d, rec) ==
    IF \E i \in DOMAIN d : d[i].url = rec.url
    THEN [i \in DOMAIN d |-> IF d[i].url = rec.url THEN rec ELSE d[i]]
    ELSE Append(d, rec)

\* self._results.get(url)
dict_get(d, url) ==
    IF \E i \in DOMAIN d : d[i].url = url
    THEN Some(d[CHOOSE i \in DOMAIN d : d[i].url = url])
    ELSE None

\* JsonStorage.__init__: "for item in data: self._results[item["url"]] = item"
RECURSIVE load_items(_, _)
load_items(d, data) ==
    IF data = <<>> THEN d
    ELSE load_items(dict_set(d, Head(data)), Tail(data))

\* JsonStorage.__init__ on a storage path whose file is absent (None) or holds
\* the list json.dump wrote.
JsonStorage_init(file) ==
    IF file = None THEN <<>> ELSE load_items(<<>>, file[1])

\* JsonStorage._write_to_file: json.dump(list(self._results.values())).
write_to_file(results) == Some(results)

\* JsonStorage.save: [results, file]
JsonStorage_save_first_wins(S, rec) ==
    LET d == dict_setdefault(S.results, rec)
    IN  [S EXCEPT !.results = d, !.file = write_to_file(d)]

JsonStorage_save(S, rec) ==
    LET d == dict_set(S.results, rec)
    IN  [S EXCEPT !.results = d, !.file = write_to_file(d)]

\* JsonStorage.clear: the dict is emptied and the file unlinked.
JsonStorage_clear_keep_file(S) == [S EXCEPT !.results = <<>>]

JsonStorage_clear(S) == [S EXCEPT !.results = <<>>, !.file = None]

JsonStorage_get(S, url) == dict_get(S.results, url)

JsonStorage_count(S) == Len(S.results)

\* One JsonStorage on a fresh storage path, the results the workers are about
\* to save, and what has been saved since the last clear.
InitStorage ==
    /\ NoEngine /\ NoStop
    /\ cleanup = <<>> /\ construction = <<>> /\ rfrontier = <<>>
    /\ codec = <<>> /\ norm = <<>>
    /\ store = [results |-> JsonStorage_init(None), file |-> None,
                pending |-> [w \in Workers |-> None],
                last_saved |-> [u \in StoreUrls |-> None],
                replaced |-> FALSE,
                last_op |-> "init"]

\* A worker has fetched a page and holds its result.
store_result(w, rec) ==
    /\ store # <<>> /\ store.pending[w] = None
    /\ store' = [store EXCEPT !.pending[w] = Some(rec), !.last_op = "result"]
    /\ UNCHANGED <<frontier, hvars, cvars, rvars, fetcher, qvars, cleanup, construction,
                   rfrontier, codec, norm>>

\* await storage.save(result): the body of save has no suspension point.
store_save(w) ==
    /\ store # <<>> /\ store.pending[w] # None
    /\ LET rec == store.pending[w][1]
           S == JsonStorage_save(store, rec)
       IN  store' = [S EXCEPT
                        !.pending[w] = None,
                        !.last_saved[rec.url] = Some(rec),
                        !.replaced = @ \/ ( /\ store.last_saved[rec.url] # None
                                            /\ store.last_saved[rec.url] # Some(rec) ),
                        !.last_op = "save"]
    /\ UNCHANGED <<frontier, hvars, cvars, rvars, fetcher, qvars, cleanup, construction,
                   rfrontier, codec, norm>>

store_clear ==
    /\ store # <<>>
    /\ store' = [JsonStorage_clear(store) EXCEPT
                    !.last_saved = [u \in StoreUrls |-> None],
                    !.replaced = FALSE,
                    !.last_op = "clear"]
    /\ UNCHANGED <<frontier, hvars, cvars, rvars, fetcher, qvars, cleanup, construction,
                   rfrontier, codec, norm>>

\* The process ends and a new JsonStorage is constructed on the same path.
store_restart ==
    /\ store # <<>>
    /\ store' = [store EXCEPT !.results = JsonStorage_init(store.file),
                              !.pending = [w \in Workers |-> None],
                              !.last_op = "restart"]
    /\ UNCHANGED <<frontier, hvars, cvars, rvars, fetcher, qvars, cleanup, construction,
                   rfrontier, codec, norm>>

NextStorage ==
    \/ \E w \in Workers : \E rec \in StoreRecords : store_result(w, rec)
    \/ \E w \in Workers : store_save(w)
    \/ store_clear
    \/ store_restart

SpecStorage == InitStorage /\ [][NextStorage]_vars

\* C24: count() is the number of distinct URLs saved (since the last clear) and
\* get(url) is the result of the latest save for that URL, none if there was
\* none.
C24_SaveIsUpsert ==
    store # <<>> =>
        /\ JsonStorage_count(store)
              = Cardinality({u \in StoreUrls : store.last_saved[u] # None})
        /\ \A u \in StoreUrls : JsonStorage_get(store, u) = store.last_saved[u]

\* Two workers have saved different results for one URL: one record, the later.
C24_Witness ==
    /\ store # <<>> /\ store.last_op = "save"
    /\ store.replaced
    /\ JsonStorage_count(store) = 1
    /\ \E u \in StoreUrls : /\ store.last_saved[u] # None
                            /\ store.last_saved[u][1].title = "New"

\* C25: a JsonStorage constructed on the path of another one holds the records
\* that one held: the same count() and the same get(url) for every url.
C25_RestartKeepsRecords ==
    [][(store # <<>> /\ store'.last_op = "restart") =>
          /\ JsonStorage_count(store') = JsonStorage_count(store)
          /\ \A u \in StoreUrls :
                JsonStorage_get(store', u) = JsonStorage_get(store, u)
      ]_vars

\* A restart of a storage that holds a record for every URL, one of them having
\* replaced an earlier one.
C25_Witness ==
    /\ store # <<>> /\ store.last_op = "restart"
    /\ store.replaced
    /\ JsonStorage_count(store) = MaxStoreUrls

\* ------------------------------------------- the distributed frontier: Redis

RedisURLs == 1..MaxRedisUrls

\* The member add() writes to the sorted set: json.dumps of the request.  Two
\* requests give the same member exactly when all their fields are equal.
RedisRequests == [url : RedisURLs, parent_url : 0..1, priority : 0..1]

\* The order of the members of equal score: the strings compare by the URL
\* first, then by the later keys.
MemberBefore(a, b) ==
    \/ a.url < b.url
    \/ a.url = b.url /\ a.parent_url < b.parent_url
    \/ a.url = b.url /\ a.parent_url = b.parent_url /\ a.priority < b.priority

\* ZPOPMIN: the member of lowest score (-priority), the first of them in the
\* order of the members.
zpopmin(queue) ==
    CHOOSE m \in queue :
        \A o \in queue \ {m} :
            \/ (0 - m.priority) < (0 - o.priority)
            \/ m.priority = o.priority /\ MemberBefore(m, o)

RedisFrontier_init ==
    [queue |-> {}, visited |-> {}, in_queue |-> {},
     pc |-> [w \in Workers |-> "idle"],
     request |-> [w \in Workers |-> None],
     ret |-> [w \in Workers |-> None],
     calls |-> 0,
     accepted |-> [u \in RedisURLs |-> 0],
     popped |-> [u \in RedisURLs |-> 0]]

InitRedis ==
    /\ NoEngine /\ NoStop
    /\ cleanup = <<>> /\ construction = <<>> /\ store = <<>>
    /\ codec = <<>> /\ norm = <<>>
    /\ rfrontier = RedisFrontier_init

\* The value a call returns to worker w.
redis_return(R, w, v) ==
    [R EXCEPT !.pc[w] = "idle", !.request[w] = None, !.ret[w] = Some(v)]

\* A worker calls add(request): SISMEMBER visited is sent.
redis_add(w, request) ==
    /\ rfrontier # <<>> /\ rfrontier.pc[w] = "idle"
    /\ rfrontier.calls < MaxRedisCalls
    /\ rfrontier' = [rfrontier EXCEPT !.pc[w] = "add_visited",
                                      !.request[w] = Some(request),
                                      !.ret[w] = None,
                                      !.calls = @ + 1]
    /\ UNCHANGED <<frontier, hvars, cvars, rvars, fetcher, qvars, cleanup, construction,
                   store, codec, norm>>

\* add: the reply to SISMEMBER visited.
add_sismember_visited(w) ==
    /\ rfrontier # <<>> /\ rfrontier.pc[w] = "add_visited"
    /\ rfrontier' = IF rfrontier.request[w][1].url \in rfrontier.visited
                    THEN redis_return(rfrontier, w, FALSE)
                    ELSE [rfrontier EXCEPT !.pc[w] = "add_in_queue"]
    /\ UNCHANGED <<frontier, hvars, cvars, rvars, fetcher, qvars, cleanup, construction,
                   store, codec, norm>>

\* add: the reply to SISMEMBER in_queue.
add_sismember_in_queue(w) ==
    /\ rfrontier # <<>> /\ rfrontier.pc[w] = "add_in_queue"
    /\ rfrontier' = IF rfrontier.request[w][1].url \in rfrontier.in_queue
                    THEN redis_return(rfrontier, w, FALSE)
                    ELSE [rfrontier EXCEPT !.pc[w] = "add_zadd"]
    /\ UNCHANGED <<frontier, hvars, cvars, rvars, fetcher, qvars, cleanup, construction,
                   store, codec, norm>>

\* add: ZADD queue {data: -priority}.
add_zadd(w) ==
    /\ rfrontier # <<>> /\ rfrontier.pc[w] = "add_zadd"
    /\ rfrontier' = [rfrontier EXCEPT !.queue = @ \cup {rfrontier.request[w][1]},
                                      !.pc[w] = "add_sadd"]
    /\ UNCHANGED <<frontier, hvars, cvars, rvars, fetcher, qvars, cleanup, construction,
                   store, codec, norm>>

\* add: SADD in_queue url; add returns True.
add_sadd(w) ==
    /\ rfrontier # <<>> /\ rfrontier.pc[w] = "add_sadd"
    /\ LET url == rfrontier.request[w][1].url
       IN  rfrontier' = [redis_return(rfrontier, w, TRUE) EXCEPT
                            !.in_queue = @ \cup {url},
                            !.accepted[url] = @ + 1]
    /\ UNCHANGED <<frontier, hvars, cvars, rvars, fetcher, qvars, cleanup, construction,
                   store, codec, norm>>

\* A worker calls get(), or get() calls itself: ZPOPMIN queue.
redis_get(w) ==
    /\ rfrontier # <<>>
    /\ \/ rfrontier.pc[w] = "idle" /\ rfrontier.calls < MaxRedisCalls
       \/ rfrontier.pc[w] = "get_again"
    /\ LET n == IF rfrontier.pc[w] = "idle" THEN rfrontier.calls + 1
                ELSE rfrontier.calls
       IN  IF rfrontier.queue = {}
           THEN rfrontier' = [redis_return(rfrontier, w, None) EXCEPT !.calls = n]
           ELSE LET m == zpopmin(rfrontier.queue)
                IN  rfrontier' = [rfrontier EXCEPT
                                     !.queue = @ \ {m},
                                     !.popped[m.url] = @ + 1,
                                     !.request[w] = Some(m),
                                     !.ret[w] = None,
                                     !.pc[w] = "get_srem",
                                     !.calls = n]
    /\ UNCHANGED <<frontier, hvars, cvars, rvars, fetcher, qvars, cleanup, construction,
                   store, codec, norm>>

\* get: SREM in_queue url.
get_srem(w) ==
    /\ rfrontier # <<>> /\ rfrontier.pc[w] = "get_srem"
    /\ rfrontier' = [rfrontier EXCEPT
                        !.in_queue = @ \ {rfrontier.request[w][1].url},
                        !.pc[w] = "get_visited"]
    /\ UNCHANGED <<frontier, hvars, cvars, rvars, fetcher, qvars, cleanup, construction,
                   store, codec, norm>>

\* get: the reply to SISMEMBER visited; a visited URL is dropped and get()
\* calls itself.
get_sismember_visited(w) ==
    /\ rfrontier # <<>> /\ rfrontier.pc[w] = "get_visited"
    /\ rfrontier' = IF rfrontier.request[w][1].url \in rfrontier.visited
                    THEN [rfrontier EXCEPT !.pc[w] = "get_again",
                                           !.request[w] = None]
                    ELSE redis_return(rfrontier, w, rfrontier.request[w][1])
    /\ UNCHANGED <<frontier, hvars, cvars, rvars, fetcher, qvars, cleanup, construction,
                   store, codec, norm>>

\* mark_visited(url): SADD visited url.
redis_mark_visited(w, url) ==
    /\ rfrontier # <<>> /\ rfrontier.pc[w] = "idle"
    /\ rfrontier.calls < MaxRedisCalls
    /\ rfrontier' = [rfrontier EXCEPT !.visited = @ \cup {url},
                                      !.ret[w] = None,
                                      !.calls = @ + 1]
    /\ UNCHANGED <<frontier, hvars, cvars, rvars, fetcher, qvars, cleanup, construction,
                   store, codec, norm>>

NextRedis ==
    \/ \E w \in Workers : \E request \in RedisRequests : redis_add(w, request)
    \/ \E w \in Workers :
          \/ add_sismember_visited(w) \/ add_sismember_in_queue(w)
          \/ add_zadd(w) \/ add_sadd(w)
          \/ redis_get(w) \/ get_srem(w) \/ get_sismember_visited(w)
    \/ \E w \in Workers : \E url \in RedisURLs : redis_mark_visited(w, url)

SpecRedis == InitRedis /\ [][NextRedis]_vars

\* C28: a URL is in the queue at most once, and no add() for it returns true
\* while an earlier accepted request for it has not been popped.
C28_RedisAddDedup ==
    rfrontier # <<>> =>
        \A u \in RedisURLs :
            /\ Cardinality({m \in rfrontier.queue : m.url = u}) <= 1
            /\ rfrontier.accepted[u] <= rfrontier.popped[u] + 1

\* ------------------------------------- models: CrawlResult to and from a dict

\* CrawlStatus: the members and their values.
CrawlStatus_value(name) ==
    CASE name = "PENDING" -> "pending"
      [] name = "IN_PROGRESS" -> "in_progress"
      [] name = "COMPLETED" -> "completed"
      [] name = "FAILED" -> "failed"
      [] name = "SKIPPED" -> "skipped"

CrawlStatus_names == {"PENDING", "IN_PROGRESS", "COMPLETED", "FAILED", "SKIPPED"}

\* CrawlStatus(value): the member of that value.  The variant leaves the value.
CrawlStatus_lookup_raw(value) == value

CrawlStatus_lookup(value) ==
    CHOOSE name \in CrawlStatus_names : CrawlStatus_value(name) = value

\* A datetime: seconds, microseconds and the UTC offset of its tzinfo in
\* minutes (None for a naive datetime).
Datetimes ==
    [second : 0..MaxSecond, microsecond : {0, 123456},
     utcoffset : {None, Some(0), Some(330)}]

\* datetime.isoformat(): "YYYY-MM-DDTHH:MM:SS", then ".ffffff" unless the
\* microseconds are 0, then "+HH:MM" unless the datetime is naive.
isoformat(dt) ==
    [seconds |-> dt.second,
     fraction |-> IF dt.microsecond = 0 THEN None ELSE Some(dt.microsecond),
     offset |-> IF dt.utcoffset = None THEN None
                ELSE Some(<<dt.utcoffset[1] \div 60, dt.utcoffset[1] % 60>>)]

\* datetime.fromisoformat(text)
fromisoformat(text) ==
    [second |-> text.seconds,
     microsecond |-> IF text.fraction = None THEN 0 ELSE text.fraction[1],
     utcoffset |-> IF text.offset = None THEN None
                   ELSE Some(text.offset[1][1] * 60 + text.offset[1][2])]

\* The fields to_dict writes.
PersistedFields ==
    {"url", "status_code", "content_type", "text", "title", "links", "metadata",
     "crawled_at", "depth", "parent_url", "elapsed_time", "status", "error"}

CrawlResults ==
    [url : {1}, status_code : {0, 200}, content_type : {"text/html"},
     html : {"", "<p>"}, text : {""}, title : Titles,
     links : {<<>>, <<1>>}, metadata : {{}, {"description"}},
     crawled_at : Datetimes, depth : 0..1, parent_url : {None, Some(1)},
     elapsed_time : 0..1, status : CrawlStatus_names,
     error : {None, Some("timeout")}, headers : {{}, {"Content-Type"}}]

\* CrawlResult.to_dict
to_dict(r) ==
    [url |-> r.url, status_code |-> r.status_code,
     content_type |-> r.content_type, text |-> r.text, title |-> r.title,
     links |-> r.links, metadata |-> r.metadata,
     crawled_at |-> isoformat(r.crawled_at),
     depth |-> r.depth, parent_url |-> r.parent_url,
     elapsed_time |-> r.elapsed_time,
     status |-> CrawlStatus_value(r.status),
     error |-> r.error]

\* CrawlResult.from_dict: html and headers get their defaults.
from_dict(data) ==
    [url |-> data.url, status_code |-> data.status_code,
     content_type |-> data.content_type, text |-> data.text,
     title |-> data.title, links |-> data.links, metadata |-> data.metadata,
     crawled_at |-> fromisoformat(data.crawled_at),
     depth |-> data.depth, parent_url |-> data.parent_url,
     elapsed_time |-> data.elapsed_time,
     status |-> CrawlStatus_lookup(data.status),
     error |-> data.error,
     html |-> "", headers |-> {}]

InitModels ==
    /\ NoEngine /\ NoStop
    /\ cleanup = <<>> /\ construction = <<>> /\ store = <<>>
    /\ rfrontier = <<>> /\ norm = <<>>
    /\ codec \in {[pc |-> "result", r |-> r, data |-> None, restored |-> None] :
                     r \in CrawlResults}

CrawlResult_to_dict ==
    /\ codec # <<>> /\ codec.pc = "result"
    /\ codec' = [codec EXCEPT !.pc = "dict", !.data = Some(to_dict(codec.r))]
    /\ UNCHANGED <<frontier, hvars, cvars, rvars, fetcher, qvars, cleanup, construction,
                   store, rfrontier, norm>>

CrawlResult_from_dict ==
    /\ codec # <<>> /\ codec.pc = "dict"
    /\ codec' = [codec EXCEPT !.pc = "restored",
                              !.restored = Some(from_dict(codec.data[1]))]
    /\ UNCHANGED <<frontier, hvars, cvars, rvars, fetcher, qvars, cleanup, construction,
                   store, rfrontier, norm>>

NextModels == CrawlResult_to_dict \/ CrawlResult_from_dict

SpecModels == InitModels /\ [][NextModels]_vars

\* C29: from_dict(to_dict(r)) has the value of r in every persisted field.
C29_RoundTrip ==
    (codec # <<>> /\ codec.pc = "restored") =>
        \A f \in PersistedFields : codec.restored[1][f] = codec.r[f]

\* A failed result with microseconds, an offset of 5:30, an error and raw HTML
\* has gone through the dict and back; the HTML is not restored.
C29_Witness ==
    /\ codec # <<>> /\ codec.pc = "restored"
    /\ codec.r.status = "FAILED"
    /\ codec.r.crawled_at.microsecond # 0
    /\ codec.r.crawled_at.utcoffset = Some(330)
    /\ codec.r.error # None
    /\ codec.r.html # ""
    /\ codec.restored[1].html = ""

\* ------------------------------------- link_extractor: URL normalisation

\* A URL "scheme://netloc" + text + "#" + fragment, the text being the path
\* with its parameters, a sequence of characters (no "?" and no "#").
PathChars == {"/", ";", "a"}

PathTexts ==
    {t \in UNION {[1..n -> PathChars] : n \in 0..MaxPathLen} :
        t = <<>> \/ t[1] = "/"}

NormUrls ==
    [scheme : {"http", "HTTP"}, netloc : {"h", "H"}, text : PathTexts,
     fragment : {"", "top"}]

\* str.lower() on the schemes and hosts of NormUrls.
lower(x) ==
    CASE x = "HTTP" -> "http"
      [] x = "H" -> "h"
      [] OTHER -> x

\* str.rfind(c): the last index of c, 0 when absent.
rfind(t, c) ==
    IF \E i \in DOMAIN t : t[i] = c
    THEN CHOOSE i \in DOMAIN t : t[i] = c /\ \A j \in DOMAIN t : t[j] = c => j <= i
    ELSE 0

\* str.find(c, start): the first index of c at or after start, 0 when absent.
find(t, c, start) ==
    IF \E i \in DOMAIN t : i >= start /\ t[i] = c
    THEN CHOOSE i \in DOMAIN t :
            /\ i >= start /\ t[i] = c
            /\ \A j \in DOMAIN t : (j >= start /\ t[j] = c) => i <= j
    ELSE 0

\* urllib.parse._splitparams: the parameters start at the first ";" after the
\* last "/".  [path, params]
splitparams(t) ==
    LET i == IF rfind(t, "/") > 0 THEN find(t, ";", rfind(t, "/"))
             ELSE find(t, ";", 1)
    IN  IF i = 0 THEN [path |-> t, params |-> <<>>]
        ELSE [path |-> SubSeq(t, 1, i - 1), params |-> SubSeq(t, i + 1, Len(t))]

\* str.rstrip("/")
RECURSIVE rstrip(_)
rstrip(t) ==
    IF t # <<>> /\ t[Len(t)] = "/" THEN rstrip(SubSeq(t, 1, Len(t) - 1)) ELSE t

\* urlunparse: ";" + params is appended when params is not empty, and a "/" is
\* put before a text that does not start with one (the netloc is not empty).
urlunparse(scheme, netloc, path, params, fragment) ==
    LET t == IF params # <<>> THEN path \o <<";">> \o params ELSE path
        u == IF t # <<>> /\ t[1] # "/" THEN <<"/">> \o t ELSE t
    IN  [scheme |-> scheme, netloc |-> netloc, text |-> u, fragment |-> fragment]

\* LinkExtractor._normalize_url, strip_fragments being True (the default).
normalize_url(url) ==
    LET parsed == splitparams(url.text)
        path == IF parsed.path # <<"/">> /\ parsed.path # <<>>
                   /\ parsed.path[Len(parsed.path)] = "/"
                THEN rstrip(parsed.path) ELSE parsed.path
    IN  urlunparse(lower(url.scheme), lower(url.netloc), path, parsed.params, "")

InitNormalize ==
    /\ NoEngine /\ NoStop
    /\ cleanup = <<>> /\ construction = <<>> /\ store = <<>>
    /\ rfrontier = <<>> /\ codec = <<>>
    /\ norm \in {[url |-> u, once |-> None, twice |-> None] : u \in NormUrls}

\* _normalize_url(url)
normalize_once ==
    /\ norm # <<>> /\ norm.once = None
    /\ norm' = [norm EXCEPT !.once = Some(normalize_url(norm.url))]
    /\ UNCHANGED <<frontier, hvars, cvars, rvars, fetcher, qvars, cleanup, construction,
                   store, rfrontier, codec>>

\* _normalize_url of the URL the first call returned.
normalize_again ==
    /\ norm # <<>> /\ norm.once # None /\ norm.twice = None
    /\ norm' = [norm EXCEPT !.twice = Some(normalize_url(norm.once[1]))]
    /\ UNCHANGED <<frontier, hvars, cvars, rvars, fetcher, qvars, cleanup, construction,
                   store, rfrontier, codec>>

NextNormalize == normalize_once \/ normalize_again

SpecNormalize == InitNormalize /\ [][NextNormalize]_vars

\* C30: normalising a normalised URL gives the same URL.
C30_NormalizeIdempotent ==
    (norm # <<>> /\ norm.twice # None) => norm.twice = norm.once

\* ---------------------------------------------------------------------------
\* robots_handler.py with the crawl-delay hand-over of worker.py: one worker's
\* robots queries, the response the host gives to the robots.txt request, the
\* cache, and the delay the rate limiter uses for the host (SpecRobots).

\* response.status of the robots.txt request
RobotsStatuses == {200, 203, 404, 500}

\* what "Crawl-delay: n" lines a robots.txt may carry (None: no such line)
DeclaredDelays == {None} \cup {Some(d) : d \in 0..MaxCrawlDelay}

\* A parsed robots.txt: the URLs it disallows and the crawl delay it declares.
RobotsTexts(h) == [disallow : Policies(h), delay : DeclaredDelays]

\* rp.parse([]): no rule, no crawl delay
EmptyPolicy == [disallow |-> {}, delay |-> None]

\* rp.parse(text.splitlines())
RobotFileParser_parse(text) == [disallow |-> text.disallow, delay |-> text.delay]

\* session.get raises (connection error, timeout): there is no response.
RobotsError == [kind |-> "error", status |-> 0, text |-> EmptyPolicy]

\* What the host answers: a response with a status and a body, or the request
\* fails.
RobotsOutcomes(h) ==
    [kind : {"response"}, status : RobotsStatuses, text : RobotsTexts(h)]
        \cup {RobotsError}

\* _fetch_robots: only status 200 has its body parsed; every other status and
\* every exception parse the empty file.
RobotsHandler_fetch_robots(o) ==
    IF o.kind = "response" /\ o.status = 200
    THEN RobotFileParser_parse(o.text)
    ELSE RobotFileParser_parse(EmptyPolicy)

\* parser.can_fetch(user_agent, url)
RobotFileParser_can_fetch(parser, url) == can_fetch(parser.disallow, url)

\* get_crawl_delay: float(delay) if delay is not None else None
RobotsHandler_crawl_delay(parser) == parser.delay

\* worker.py: "if crawl_delay:" is false for None and for 0.0
truthy(crawl_delay) == crawl_delay # None /\ crawl_delay[1] # 0

InitRobots ==
    /\ frontier = MemoryFrontier_init
    /\ calls = 0 /\ last = NoCall /\ log = <<>>
    /\ NoCrawl /\ NoRate /\ NoFetch /\ NoEngine
    /\ cleanup = <<>> /\ construction = <<>> /\ store = <<>>
    /\ rfrontier = <<>> /\ codec = <<>> /\ norm = <<>>
    /\ stop_called = {} /\ dispatch = <<>>
    /\ \E d \in 0..MaxDelay :
         robots = [per_domain_delay |-> d,
                   cache |-> [h \in Hosts |-> None],
                   domain_delays |-> [h \in Hosts |-> None],
                   served |-> [h \in Hosts |-> None],
                   fetches |-> [h \in Hosts |-> 0],
                   pc |-> "idle", url |-> 0, allowed |-> None,
                   crawl_delay |-> None, waited |-> None]

RobotsUnchanged ==
    UNCHANGED <<frontier, hvars, cvars, rvars, fetcher, pvars, stop_called,
                dispatch>>

\* _process_url starts on a URL: is_allowed -> get_parser.  A cached host is
\* answered from the cache, an unknown host has its robots.txt requested.
robots_is_allowed(url) ==
    /\ robots.pc = "idle"
    /\ IF robots.cache[Host(url)] # None
       THEN robots' = [robots EXCEPT
                !.url = url, !.pc = "checked",
                !.allowed = Some(RobotFileParser_can_fetch(
                                     robots.cache[Host(url)][1], url)),
                !.crawl_delay = None, !.waited = None]
       ELSE robots' = [robots EXCEPT
                !.url = url, !.pc = "fetch_robots", !.allowed = None,
                !.fetches[Host(url)] = @ + 1,
                !.crawl_delay = None, !.waited = None]
    /\ RobotsUnchanged

\* _fetch_robots returns: the parser is cached, is_allowed answers from it.
robots_fetched ==
    /\ robots.pc = "fetch_robots"
    /\ \E o \in RobotsOutcomes(Host(robots.url)) :
          LET h == Host(robots.url)
              parser == RobotsHandler_fetch_robots(o)
          IN  robots' = [robots EXCEPT
                   !.served[h] = Some(o),
                   !.cache[h] = Some(parser),
                   !.allowed = Some(RobotFileParser_can_fetch(parser, robots.url)),
                   !.pc = "checked"]
    /\ RobotsUnchanged

\* worker.py: a disallowed URL is skipped.
robots_skip ==
    /\ robots.pc = "checked" /\ robots.allowed = Some(FALSE)
    /\ robots' = [robots EXCEPT !.pc = "idle"]
    /\ RobotsUnchanged

\* worker.py: crawl_delay = await get_crawl_delay(url);
\*            if crawl_delay: rate_limiter.set_domain_delay(domain, crawl_delay)
robots_get_crawl_delay ==
    /\ robots.pc = "checked" /\ robots.allowed = Some(TRUE)
    /\ LET h == Host(robots.url)
           d == RobotsHandler_crawl_delay(robots.cache[h][1])
           installed == IF truthy(d) THEN set_domain_delay(robots, h, d[1])
                        ELSE robots
       IN  robots' = [installed EXCEPT !.crawl_delay = d, !.pc = "acquire"]
    /\ RobotsUnchanged

\* rate_limiter.acquire(domain): delay = get_delay_for_domain(domain)
robots_acquire ==
    /\ robots.pc = "acquire"
    /\ robots' = [robots EXCEPT
            !.waited = Some(get_delay_for_domain(robots, robots,
                                                 Host(robots.url))),
            !.pc = "idle"]
    /\ RobotsUnchanged

NextRobots ==
    \/ \E url \in CrawlURLs : robots_is_allowed(url)
    \/ robots_fetched
    \/ robots_skip
    \/ robots_get_crawl_delay
    \/ robots_acquire

SpecRobots == InitRobots /\ [][NextRobots]_vars

\* a 2xx answer to the robots.txt request
is_2xx(o) == o.kind = "response" /\ o.status \div 100 = 2

\* C32: the first query for a host requests its robots.txt once; the body of
\* any 2xx response is parsed, cached and enforced; a non-2xx response or a
\* transport error caches the empty policy, without a retry.
C32_Any2xxIsParsed ==
    robots # <<>> =>
      \A h \in Hosts :
        robots.cache[h] # None =>
          /\ robots.fetches[h] = 1
          /\ robots.cache[h][1] =
                IF is_2xx(robots.served[h][1])
                THEN RobotFileParser_parse(robots.served[h][1].text)
                ELSE EmptyPolicy

\* C35: with a crawl delay c declared by the host's robots.txt, the delay the
\* limiter uses for the host at acquire() is c; a host that declares none
\* keeps per_domain_delay.
C35_DeclaredDelayInstalled ==
    (robots # <<>> /\ robots.pc = "acquire") =>
      LET h == Host(robots.url)
          declared == robots.cache[h][1].delay
      IN  get_delay_for_domain(robots, robots, h) =
              IF declared # None THEN declared[1] ELSE robots.per_domain_delay

\* ---------------------------------------------------------------------------
\* The order of dispatch (SpecDispatch): crawl() seeds the frontier with
\* priority 100, the workers pop requests and queue the children of a page with
\* priority max_depth - depth - 1 (crawler.py, worker.py, frontier.py).

\* config.max_depth: validate() accepts every value >= 0
DispatchDepths ==
    {0, 1, DefaultMaxDepth, SeedPriority, SeedPriority + 1, SeedPriority + 2}

InitDispatch ==
    /\ frontier = MemoryFrontier_init
    /\ calls = 0 /\ last = NoCall /\ log = <<>>
    /\ NoCrawl /\ NoRate /\ NoFetch /\ NoEngine
    /\ cleanup = <<>> /\ construction = <<>> /\ store = <<>>
    /\ rfrontier = <<>> /\ codec = <<>> /\ norm = <<>>
    /\ stop_called = {} /\ robots = <<>>
    /\ \E d \in DispatchDepths :
         dispatch = [max_depth |-> d, pc |-> "seed", F |-> MemoryFrontier_init,
                     request |-> [w \in Workers |-> None], got |-> None]

DispatchUnchanged ==
    UNCHANGED <<frontier, hvars, cvars, rvars, fetcher, pvars, stop_called,
                robots>>

\* crawl(seed_urls): "Seed the frontier", before the workers are created
dispatch_crawl(seed_urls) ==
    /\ dispatch.pc = "seed"
    /\ dispatch' = [dispatch EXCEPT
            !.F = seed_frontier(dispatch.F, seed_urls, dispatch.max_depth, {}).F,
            !.pc = "run"]
    /\ DispatchUnchanged

\* run: request = await self.frontier.get()
dispatch_get(w) ==
    /\ dispatch.pc = "run" /\ dispatch.request[w] = None
    /\ LET g == MemoryFrontier_get(dispatch.F)
       IN  /\ g.F # dispatch.F
           /\ dispatch' = [dispatch EXCEPT
                  !.F = g.F, !.request[w] = g.ret,
                  !.got = IF g.ret = None THEN None
                          ELSE Some([before |-> dispatch.F, ret |-> g.ret[1]])]
    /\ DispatchUnchanged

\* _process_url on a page with the given links: mark_visited, "Queue new links"
dispatch_process_url(w, links) ==
    /\ dispatch.pc = "run" /\ dispatch.request[w] # None
    /\ LET request == dispatch.request[w][1]
           V == MemoryFrontier_mark_visited(dispatch.F, request.url)
       IN  dispatch' = [dispatch EXCEPT
               !.F = IF may_enqueue(request)
                     THEN enqueue_links(V, request, links, 0, {}).F
                     ELSE V,
               !.request[w] = None, !.got = None]
    /\ DispatchUnchanged

NextDispatch ==
    \/ \E seed_urls \in SeedLists : dispatch_crawl(seed_urls)
    \/ \E w \in Workers : dispatch_get(w)
    \/ \E w \in Workers : \E links \in LinkLists : dispatch_process_url(w, links)

SpecDispatch == InitDispatch /\ [][NextDispatch]_vars

\* C33: a child's priority is below the seed priority and get() returns a
\* request of the smallest depth among the eligible requests the frontier
\* holds, for every max_depth.
C33_ShallowestFirst ==
    dispatch # <<>> =>
      /\ \A i \in DOMAIN dispatch.F.queue :
            dispatch.F.queue[i][3].depth > 0
                => dispatch.F.queue[i][3].priority < SeedPriority
      /\ dispatch.got # None =>
            \A i \in Eligible(dispatch.got[1].before) :
                dispatch.got[1].ret.depth
                    <= dispatch.got[1].before.queue[i][3].depth

====
